------------------------------ MODULE MCTools -------------------------------
(* Two calls of one session or of two.  The rules are those that make a    *)
(* difference: the file and the loop are asked about, a command is asked   *)
(* about or denied.                                                        *)
EXTENDS Turn

CONSTANTS c1, c2, s1, s2

MCCommands == {<<"list">>, <<"list", "push">>}

Scenario(together, first, second) ==
  /\ of = [c \in Call |-> IF c = c1 \/ together THEN s1 ELSE s2]
  /\ kind[c1] = first /\ kind[c2] = second
  /\ command[c1] = IF first = "bash" THEN <<"list", "push">> ELSE <<"list">>
  /\ command[c2] = <<"list">>

MCInit ==
  /\ Init
  /\ rules["file"] = "ask" /\ rules["doom"] = "ask"
  /\ rules["list"] = "ask"
  /\ rules["push"] = IF kind[c1] = "bash" THEN "deny" ELSE "ask"
  /\ readAt = [s \in Session |-> 1]
  /\ \/ \E pair \in {<<"create", "write">>, <<"bash", "bash">>, <<"question", "bash">>} :
          Scenario(TRUE, pair[1], pair[2])
     \/ Scenario(FALSE, "edit", "edit")

ToolsSpec == MCInit /\ [][Next]_vars /\ Fairness
=============================================================================
