----------------------------- MODULE MCPrograms ------------------------------
(* A small instance of every part.                                         *)
EXTENDS Programs, TLC

MCOptionSets == {{}, {"k"}, {"k", "o"}, {"h", "V"}}
Directive(key, kind, value) == [key |-> key, kind |-> kind, value |-> value]
Named(key, value) == Directive(key, "word", value)
OnDevice(type, cable) ==
    <<Directive("", "word", ""), Named("UPSTYPE", type), Named("UPSCABLE", cable), Directive("DEVICE", "path", <<"/dev", "ttyS0">>)>>
MCConfigs ==
    {OnDevice("usb", "smart"), OnDevice("dumb", "940-0020B"), OnDevice("net", "smart"), OnDevice("modbus", "simple"),
     OnDevice("apcsmart", "smart") \o <<Named("UPSTYPE", "dumb"), Named("NETPORT", "x")>>,
     OnDevice("modbus", "usb") \o <<Directive("DEVICE", "path", <<"ttyS0">>), Directive("POLLTIME", "number", 60)>>,
     OnDevice("usb", "usb") \o <<Named("POLLTIME", "often")>>, OnDevice("usb", "usb") \o <<Named("MASTER", "x")>>,
     <<Named("UPSCABLE", "simple"), Directive("DEVICE", "path", <<"ttyS0">>)>>}
MCPaths == {<<"/var/lock", "ttyS0">>}

MCReadings == <<[flags |-> {"online", "battpresent"}, lastxfer |-> "none"],
                [flags |-> {"onbatt", "slave", "commlost"}, lastxfer |-> "selftest"]>>

(* Values around every width an octet of 8 values gives.                   *)
MCInts == {[type |-> INTEGER, signed |-> FALSE, v |-> n] : n \in 0..600 \cup 2040..2055 \cup 4090..4095}
          \cup {[type |-> INTEGER, signed |-> TRUE, v |-> n] : n \in 2048..4095}
MCStrings == {[type |-> OCTETSTRING, v |-> [j \in 1..n |-> j % 8]] : n \in 0..70}
MCOids == {[type |-> OBJECTID, v |-> <<1, a, b, c>>] : a \in {0, 3, 39}, b \in 0..70, c \in {0, 3, 4, 15, 16, 17, 500}}
MCSmall == {[type |-> INTEGER, signed |-> FALSE, v |-> 5], [type |-> OCTETSTRING, v |-> <<1, 2, 3>>],
            [type |-> OBJECTID, v |-> <<1, 3, 6, 17>>], [type |-> NULLL]}
MCSeqs(S, n) == {[type |-> SEQUENCE, v |-> s] : s \in UNION {[1..k -> S] : k \in 0..n}}
MCObjects ==
    MCInts \cup MCStrings \cup MCOids \cup {[type |-> NULLL]}
    \cup MCSeqs(MCSmall, 3) \cup MCSeqs(MCSeqs(MCSmall, 1) \cup MCSmall, 2)

(* Sensitivity, with a value that is there twice in a row, and a delay.    *)
MCRings == <<<<"H", "M", "L", "L">>, <<"000", "060", "180", "300">>>>

MCSymmetry == Permutations(Conns) \cup Permutations(Procs \ Testers)
=============================================================================
