------------------------------ MODULE CommandForm ------------------------------
(***************************************************************************)
(* The console's command field: what is typed, what was sent, the answer   *)
(* that comes while something else is typed, and the commands recalled     *)
(* with the arrow keys (console-command-form.tsx).                         *)
(***************************************************************************)
EXTENDS Integers, Sequences

CONSTANTS
  Commands,     \* valid commands
  RecallLimit,  \* commands that can be recalled
  MaxActions    \* bound: edits and submissions while the form is mounted

NoCommand == "no command"

ASSUME CommandBounds ==
  /\ NoCommand \notin Commands
  /\ RecallLimit \in Nat \ {0} /\ MaxActions \in Nat

VARIABLES
  command,        \* what the field holds; NoCommand stands for what is not valid
  commandError,   \* the field's error is shown
  activeCommand,  \* the command whose outcome the form shows
  recall,         \* commandHistoryRef: commands that succeeded, newest first
  index,          \* historyIndexRef: the one the field was recalled from, or -1
  action,         \* actionRef: counts edits and submissions
  execution       \* the request the hook observes

formVars == <<command, commandError, activeCommand, recall, index, action, execution>>

NoExecution == [command |-> NoCommand, action |-> 0, status |-> "idle"]

FormFresh ==
  /\ command' = NoCommand /\ commandError' = FALSE /\ activeCommand' = NoCommand
  /\ recall' = <<>> /\ index' = -1 /\ action' = 0
  /\ execution' = NoExecution

FormInit ==
  /\ command = NoCommand /\ commandError = FALSE /\ activeCommand = NoCommand
  /\ recall = <<>> /\ index = -1 /\ action = 0
  /\ execution = NoExecution

Executing == execution.status = "pending"

(* startDraft: a pending request is not forgotten, a settled one is. *)
StartDraft(value) ==
  /\ action < MaxActions /\ action' = action + 1
  /\ command' = value /\ commandError' = FALSE
  /\ activeCommand' = NoCommand
  /\ execution' = IF Executing THEN execution ELSE NoExecution

TypeCommand(value) ==
  /\ StartDraft(value)
  /\ UNCHANGED <<recall, index>>

(* commandKeyDown *)
RecallAt(i) ==
  /\ index' = i
  /\ StartDraft(IF i >= 0 THEN recall[i + 1] ELSE NoCommand)
  /\ UNCHANGED recall

ArrowUp == RecallAt(IF index + 1 < Len(recall) THEN index + 1 ELSE Len(recall) - 1)

ArrowDown == RecallAt(IF index > -1 THEN index - 1 ELSE -1)

(* submit, by the button or the enter key. *)
SubmitCommand ==
  /\ ~Executing
  /\ action < MaxActions /\ action' = action + 1
  /\ IF command = NoCommand
       THEN /\ commandError' = TRUE /\ execution' = NoExecution
            /\ UNCHANGED activeCommand
       ELSE /\ commandError' = FALSE /\ activeCommand' = command
            /\ execution' = [command |-> command, action |-> action + 1,
                             status |-> "pending"]
  /\ UNCHANGED <<command, recall, index>>

RememberAgain(value) ==  \* variant: a command already there is not taken out
  SubSeq(<<value>> \o recall, 1,
         IF Len(recall) < RecallLimit THEN Len(recall) + 1 ELSE RecallLimit)

(* filter: the items other than a value. *)
Without(items, value) ==
  LET kept[i \in 0..Len(items)] ==
        IF i = 0 THEN <<>>
        ELSE IF items[i] = value THEN kept[i - 1]
        ELSE Append(kept[i - 1], items[i])
  IN kept[Len(items)]

(* The commands with the newest first, each once. *)
Remember(value) ==
  LET others == Without(recall, value)
  IN SubSeq(<<value>> \o others, 1,
            IF Len(others) < RecallLimit THEN Len(others) + 1 ELSE RecallLimit)

CommandSucceedsLate ==  \* variant: the field may have been edited meanwhile
  /\ Executing
  /\ execution' = [execution EXCEPT !.status = "done"]
  /\ recall' = Remember(execution.command) /\ command' = NoCommand /\ index' = -1
  /\ UNCHANGED <<commandError, activeCommand, action>>

(* onSuccess: nothing but the outcome if the field was edited since. *)
CommandSucceeds ==
  /\ Executing
  /\ execution' = [execution EXCEPT !.status = "done"]
  /\ IF action = execution.action
       THEN recall' = Remember(execution.command) /\ command' = NoCommand /\ index' = -1
       ELSE UNCHANGED <<recall, command, index>>
  /\ UNCHANGED <<commandError, activeCommand, action>>

CommandFails ==
  /\ Executing
  /\ execution' = [execution EXCEPT !.status = "failed"]
  /\ UNCHANGED <<command, commandError, activeCommand, recall, index, action>>

(* The page is left, or reading its history fails and it renders the error. *)
FormUnmounts == action > 0 /\ FormFresh

FormNext ==
  \/ \E value \in Commands \union {NoCommand} : TypeCommand(value)
  \/ ArrowUp \/ ArrowDown \/ SubmitCommand
  \/ CommandSucceeds \/ CommandFails \/ FormUnmounts

FormSpec == FormInit /\ [][FormNext]_formVars

-----------------------------------------------------------------------------
(* Properties *)

(* mutationBelongsToSurface, and the request has an outcome *)
OutcomeShown ==
  /\ activeCommand # NoCommand /\ activeCommand = execution.command
  /\ execution.status \in {"done", "failed"}

FormTypeOK ==
  /\ command \in Commands \union {NoCommand}
  /\ activeCommand \in Commands \union {NoCommand}
  /\ commandError \in BOOLEAN
  /\ recall \in Seq(Commands)
  /\ action \in 0..MaxActions
  /\ execution \in [command : Commands \union {NoCommand}, action : 0..MaxActions,
                    status : {"idle", "pending", "done", "failed"}]

(* The arrow keys stay within the commands that can be recalled; those are at most
   RecallLimit and all different (console-command-form.tsx:41, 51-56). *)
RecallInRange ==
  /\ FormTypeOK
  /\ index \in -1..(Len(recall) - 1)
  /\ Len(recall) <= RecallLimit
  /\ \A i, j \in 1..Len(recall) : recall[i] = recall[j] => i = j

(* An outcome is shown for the last submission only, and only while nothing was
   typed, recalled or submitted after it, though answers come late and the same
   command may have been sent before (console-command-form.tsx:58). *)
OutcomeIsOfField == OutcomeShown => execution.action = action

(* An answer leaves the field as it is, unless the field still holds the command
   that was sent and nothing was typed since: what is typed while a command is
   executed survives its answer (console-command-form.tsx:40). *)
AnswerKeepsDraft ==
  (Executing /\ execution'.action = execution.action
     /\ execution'.status = "done" /\ command' # command) =>
    /\ execution.action = action
    /\ execution.command = command

(* Field, outcome and answer belong together, whatever is typed while a command is
   executed. *)
FieldKept == [][OutcomeIsOfField' /\ AnswerKeepsDraft]_formVars

=============================================================================
