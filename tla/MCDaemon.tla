------------------------------ MODULE MCDaemon ------------------------------
EXTENDS Daemon

CONSTANTS c1, c2

(* Each trouble with the commands it can get in the way of.                *)
H(kinds, first, second) ==
    [trouble |-> kinds, commands |-> [c \in {c1, c2} |-> IF c = c1 THEN first ELSE second]]

SmallHistories ==
    { H({}, {"pause", "drain"}, {"resume"}),
      H({}, {"reprocess"}, {"probe", "shutdown"}),
      H({"signal"}, {"reprocess"}, {}),
      H({"start"}, {"status", "pause", "drain"}, {}),
      H({"fatal"}, {"drain", "shutdown"}, {}),
      H({"accept"}, {"status"}, {"shutdown"}),
      H({"leave"}, {"reprocess", "shutdown"}, {}),
      H({"rival"}, {"shutdown"}, {}) }

TwoStages == <<"convert", "fetch">>
FetchNeedsConvert == [s \in {"convert", "fetch"} |-> "convert"]
=============================================================================
