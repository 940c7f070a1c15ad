----------------------------- MODULE MCTurnGate -----------------------------
(* Instances of TurnGate. *)
EXTENDS TurnGate

Plain(mode, priority) ==
  [mode |-> mode, slash |-> FALSE, priority |-> priority, agent |-> FALSE, meta |-> FALSE,
   text |-> TRUE]

Prompt == Plain("prompt", 1)
BashCommand == Plain("bash", 1)
ImagePrompt == [Prompt EXCEPT !.text = FALSE]
SlashCommand == [Prompt EXCEPT !.slash = TRUE]
Notification == Plain("task-notification", 2)
AgentNotification == [Notification EXCEPT !.agent = TRUE, !.priority = 1]
CronPrompt == [Plain("prompt", 2) EXCEPT !.meta = TRUE]
UrgentPrompt == Plain("prompt", 0)

TypedKinds == {ImagePrompt, BashCommand, SlashCommand}
PostedKinds == {AgentNotification, CronPrompt, UrgentPrompt}
IncomingKinds == {Prompt}
PromptOnly == {Prompt}
AllOutcomes == {"query", "local", "nothing", "throws"}
QueryOnly == {"query"}
=============================================================================
