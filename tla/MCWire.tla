------------------------------- MODULE MCWire -------------------------------
(***************************************************************************)
(* A small instance of Wire: two tokens, six streams, and reads that hold  *)
(* from one field to three whole frames.                                   *)
(***************************************************************************)
EXTENDS Wire, TLC

Pin(name, kind, transient) == [name |-> name, kind |-> kind, transient |-> transient]

SomeHardware == ("52" :> Pin("temperature_offset", "float", FALSE))
             @@ ("51" :> Pin("amount_left", "float", FALSE))
             @@ ("60" :> Pin("tare", "string", TRUE))
             @@ ("76" :> Pin("max_keg_volume", "float", FALSE))
SomeProperties == (<<"51", "max">> :> Pin("max_keg_volume", "float", FALSE))

Write(id, pin, value) == Frame("hardware", id, <<"vw", pin, value>>)

(* A keg: one setting by two ways, an unknown pin, an echoed button, a value *)
(* that is no number, a read request, a heartbeat and a reply.               *)
FromKeg == <<Frame("login", 1, <<"T1">>), Frame("internal", 2, <<"fw", "1", "", "odd">>),
             Frame("ping", 3, <<>>), Write(4, "51", "5"), Write(5, "76", "8"),
             Frame("property", 6, <<"51", "max", "9">>), Write(7, "99", "x"),
             Write(8, "60", "1"), Response(9, 200), Write(10, "51", "junk"),
             Frame("hardware", 11, <<"vr", "51">>), Frame("internal", 12, <<"fw", "2">>)>>

(* Metadata before the token, and again with the first pin. *)
Early == <<Frame("internal", 1, <<"fw", "1", "build", "a">>),
           Frame("get_shared_dash", 2, <<"T2">>),
           Frame("internal", 3, <<"fw", "2">>), Write(4, "51", "6"), Write(5, "51", "")>>

(* As recorded: two pins come before the one that tells a keg, and one of an *)
(* unknown name behind it.                                                   *)
Recorded == <<Frame("get_shared_dash", 1, <<"T1">>), Frame("internal", 2, <<"fw", "1">>),
              Write(3, "52", "0"), Write(4, "76", "5"), Frame("internal", 5, <<"fw", "2">>),
              Write(6, "51", "9"), Write(7, "99", "y")>>

Airlock == <<Frame("login", 1, <<"T2">>), Frame("internal", 2, <<"fw", "3">>)>>

Malformed == <<Frame("login", 1, <<"odd">>), Write(2, "51", "7")>>

(* A length that no frame has, and frames behind it. *)
TooLong == <<Frame("login", 1, <<"T1">>), Write(2, "51", "4"),
             [cmd |-> "hardware", id |-> 3, third |-> 40, body |-> <<"vw">>],
             Write(4, "51", "3"), Write(5, "51", "2")>>

SomeStreams == {FromKeg, Early, Recorded, Airlock, Malformed, TooLong}
=============================================================================
