-------------------------------- MODULE MCBLELink --------------------------------
(* HAPBLEPeripheralManager with a door that requires timed writes, a lock that  *)
(* only admins read, with events, and the Pair Verify characteristic.           *)
EXTENDS HAPBLEPeripheralManager

MCTable == <<"lock", "door", "verify">>

Plain == [pairing |-> "None", signature |-> FALSE, information |-> FALSE,
          configurable |-> FALSE, events |-> TRUE, timed |-> FALSE, readable |-> TRUE,
          writable |-> TRUE, openRead |-> FALSE, openWrite |-> FALSE,
          writeResponse |-> FALSE, adminRead |-> FALSE, adminWrite |-> FALSE]

MCDatabase ==
    [c \in {"door", "lock", "verify"} |->
        CASE c = "door"   -> [Plain EXCEPT !.timed = TRUE, !.events = FALSE]
          [] c = "lock"   -> [Plain EXCEPT !.adminRead = TRUE]
          [] c = "verify" -> [Plain EXCEPT !.pairing = "PairVerify", !.events = FALSE,
                                 !.readable = FALSE, !.writable = FALSE, !.openRead = TRUE,
                                 !.openWrite = TRUE, !.writeResponse = TRUE]]

Request(c, opcode, tid, body) ==
    [char |-> c, body |-> body,
     header |-> [opcode |-> opcode, tid |-> tid, iid |-> "Own", total |-> 0]]

MCRequests ==
    {Request("door", "CharacteristicTimedWrite", 1, <<"a">>),
     Request("door", "CharacteristicExecuteWrite", 2, <<>>),
     Request("door", "CharacteristicExecuteWrite", 2, <<"b">>),
     Request("door", "CharacteristicWrite", 1, <<"c">>),
     Request("lock", "CharacteristicRead", 1, <<>>),
     Request("verify", "CharacteristicWrite", 1, <<"R", "M1">>),
     Request("verify", "CharacteristicWrite", 1, <<"R", "M3">>)}

MCInitially == [c \in {"door", "lock", "verify"} |->
                   IF c = "lock" THEN <<"v", "w">> ELSE <<"v">>]
=============================================================================
