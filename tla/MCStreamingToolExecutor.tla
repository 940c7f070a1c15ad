---------------------- MODULE MCStreamingToolExecutor ----------------------
(* Instances of StreamingToolExecutor: which tools the model may call.     *)
EXTENDS StreamingToolExecutor

Tool(known, safe, bash, cancel) ==
  [known |-> known, safe |-> safe, bash |-> bash, cancel |-> cancel]

Edit == Tool(TRUE, FALSE, FALSE, FALSE)
Sleep == Tool(TRUE, TRUE, FALSE, TRUE)
BashRead == Tool(TRUE, TRUE, TRUE, FALSE)
Unknown == Tool(FALSE, TRUE, FALSE, FALSE)

TurnKinds == {Sleep, Edit, BashRead, Unknown}
KnownKinds == {Sleep, Edit, BashRead}
EditAndBash == {Edit, BashRead}
EditAndUnknown == {Edit, Unknown}
EditOnly == {Edit}
=============================================================================
