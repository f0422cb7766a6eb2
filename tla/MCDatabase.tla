------------------------------ MODULE MCDatabase ------------------------------
(* A bridge with every format and every kind of metadata.                  *)
EXTENDS Integers, Sequences

Chr(iid, format, type, properties, constraints) ==
    [iid |-> iid, format |-> format, type |-> type, apple |-> TRUE, description |-> 0,
     units |-> "none", properties |-> properties, constraints |-> constraints]

Numeric(min, max, step) == [min |-> min, max |-> max, step |-> step]

Valid(values, ranges) == [min |-> 0, max |-> 5, step |-> 1,
                          validValues |-> values, validValuesRanges |-> ranges]

RW == {"readable", "writable", "supportsEventNotification"}

Service(iid, type, linked, chrs) ==
    [iid |-> iid, type |-> type, primary |-> iid = 3, hidden |-> iid = 9,
     linkedServices |-> linked, characteristics |-> chrs]

AllFormats ==
    <<[aid |-> 1, services |->
        <<Service(1, "Pairing", <<>>, <<Chr(2, "tlv8", "PairSetup", {"readable"}, <<>>)>>),
          Service(3, "Light", <<9, 20>>,
            <<Chr(4, "data", "ServiceSignature", {"readable"}, [maxLength |-> 2097152]),
              Chr(5, "bool", "On", RW, <<>>),
              [Chr(6, "uint8", "State", RW, Valid(<<1, 3>>, <<<<4, 5>>>>))
                  EXCEPT !.description = 7, !.units = "seconds"],
              [Chr(7, "uint8", "Custom", {"writable"}, Valid(<<1>>, <<>>))
                  EXCEPT !.apple = FALSE],
              [Chr(8, "uint16", "Hue", RW, Numeric(0, 60, 5)) EXCEPT !.units = "arcdegrees"]>>),
          Service(9, "Empty", <<>>, <<Chr(10, "data", "ServiceSignature", {}, [maxLength |-> 5])>>)>>],
      [aid |-> 2, services |->
        <<Service(20, "Sensor", <<>>,
            <<Chr(21, "uint32", "Luminance", {"readable"}, Numeric(0, 300, 0)),
              Chr(22, "uint64", "Total", {}, Numeric(1, 500, 0)),
              [Chr(23, "int", "Offset", RW, Numeric(-200, 200, 2)) EXCEPT !.description = 3],
              [Chr(24, "float", "Temperature", RW \ {"readable"}, Numeric(-50, 100, 5))
                  EXCEPT !.units = "celsius"],
              Chr(25, "float", "Free", RW, Numeric(-9999, 9999, 0)),
              Chr(26, "string", "Name", {"readable"}, [maxLength |-> 64]),
              Chr(27, "string", "Note", RW, [maxLength |-> 12]),
              Chr(28, "tlv8", "Control", {"readable", "controlPoint"}, <<>>),
              Chr(29, "data", "Blob", {"readable", "hidden"}, [maxLength |-> 9]),
              Chr(30, "uint8", "ProgrammableSwitchEvent", {"readable"}, Valid(<<>>, <<<<0, 2>>>>))>>),
          Service(31, "Pairing", <<>>, <<>>)>>]>>
=============================================================================
