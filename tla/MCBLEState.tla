------------------------------ MODULE MCBLEState ------------------------------
(* Two characteristics that are broadcast and one that is not; a new        *)
(* accessory, and accessories whose numbers are about to wrap.              *)
EXTENDS HAPBLEAdvertising

InService(cn, gsn) ==
    [k \in {"CN", "GSN", "Version", "LTSK"} |->
        CASE k = "CN" -> cn
          [] k = "GSN" -> [gsn |-> gsn, didIncrement |-> FALSE]
          [] k = "Version" -> 1
          [] k = "LTSK" -> TRUE]

Contents == {KVSPurged, InService(UINT32_MAX, UINT16_MAX - 1)}
===============================================================================
