----------------------------- MODULE MCRunKernel ----------------------------
(* Small instances of RunKernel for TLC. *)
EXTENDS RunKernel

CONSTANTS r1, r2, look, edit, wipe, text, feed

OneRun == {r1}
TwoRuns == {r1, r2}

MCTools == {look, edit, wipe}

MCEffect == [t \in MCTools |-> CASE t = look -> "read"
                                 [] t = edit -> "write"
                                 [] OTHER -> "destructive"]

MCRisk == [t \in MCTools |-> CASE t = look -> "green"
                               [] t = edit -> "amber"
                               [] OTHER -> "red"]

OneContent == {text}
TwoContents == {text, feed}
NoContents == {}
FeedBreaks == {feed}

\* The envelope of the run, and a wider one a resume may try to pass.
Narrow == [steps |-> 2, calls |-> 2, secs |-> 1, tools |-> {look, edit},
           refs |-> {edit}]
Wide == [steps |-> 2, calls |-> 2, secs |-> 1, tools |-> MCTools,
         refs |-> {edit, wipe}]
OneEnvelope == {Narrow}
TwoEnvelopes == {Narrow, Wide}

CallTool(t) == [type |-> "tool_call", calls |-> <<t>>, content |-> NoContent]
CallBatch(b) == [type |-> "tool_batch", calls |-> b, content |-> NoContent]
Say(c) == [type |-> "answer", calls |-> <<>>, content |-> c]
Other(type) == [type |-> type, calls |-> <<>>, content |-> NoContent]

AllActions ==
  {CallTool(edit), CallTool(wipe), CallBatch(<<look, look>>),
   CallBatch(<<look, edit>>), Say(text), Other("delegate"), Other("error")}
SayActions == {Say(text)}
EditActions == {CallTool(edit), Say(text)}
AnswerActions == {CallTool(look), Say(text), Say(feed)}

SafeFaults == {"nothing", "torn", "unsynced"}
NoNewline == {"nothing", "unterminated"}

\* Either one run takes every action of the model and meets a crash and one of
\* an I/O error, an interrupt and a passed deadline, or two runs share the
\* ledger undisturbed, only answer, and the first may be resumed.
OneFocus ==
  /\ faults + interrupts + now <= 1
  /\ run = r2 => disk # <<>> /\ disk[1].run = r1
  /\ (run = r2 \/ \E i \in DOMAIN disk : disk[i].run = r2) =>
        /\ faults = 0 /\ crashes = 0 /\ interrupts = 0 /\ now = 0
        /\ env \in {Narrow, NoEnvelope}
        /\ act \in {NoAction} \cup SayActions
        /\ \A i \in DOMAIN disk :
             /\ disk[i].type = "model_action" => disk[i].action \in SayActions
             /\ disk[i].type = "run_resumed" => disk[i].run = r1

=============================================================================
