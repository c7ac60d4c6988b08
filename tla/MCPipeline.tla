------------------------------ MODULE MCPipeline ------------------------------
(* A small instance of Pipeline: two requests of one agent, one of another *)
(* agent, and one whose session id has a dot in it.                        *)
EXTENDS Pipeline

CONSTANTS r1, r2, r3, r4

MCContextOf ==
  LET alice == <<Word(1)>>
      bob   == <<Word(2)>>
  IN  [r \in Requests |->
         CASE r = r1 -> [session |-> <<Word(3)>>, agent |-> alice]
           [] r = r2 -> [session |-> <<Word(4)>>, agent |-> alice]
           [] r = r3 -> [session |-> <<Word(3)>>, agent |-> bob]
           [] r = r4 -> [session |-> <<Word(3), Dot, Word(4)>>, agent |-> bob]]

Text(tokens, pii, markers) == [tokens |-> tokens, pii |-> pii, markers |-> markers]

MCIntents == <<{"ignore", "previous"}, {"reveal", "prompt"}>>

(* Personal data; a marker; a paraphrase, just at the threshold of 1/2.    *)
MCPrompts == {Text({"weather"}, {"email", "phone"}, {}),
              Text({"weather"}, {}, {"role_override"}),
              Text({"ignore"}, {}, {})}
MCScripts == {<< >>, <<"deploy", "lookup">>}
MCReplies == {Text({"sunny"}, {"phone"}, {})}
=============================================================================
