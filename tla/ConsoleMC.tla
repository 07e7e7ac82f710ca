------------------------------- MODULE ConsoleMC -------------------------------
(***************************************************************************)
(* The console for TLC: the hub and its streams, the browser's end of one  *)
(* stream, and the command field.  They share no state here, so TLC looks  *)
(* at one of them at a time while the others rest as they begin.           *)
(***************************************************************************)
EXTENDS ConsoleHub, StreamClient, CommandForm

VARIABLE focus  \* the part that takes steps

MCInit ==
  /\ focus \in {"hub", "stream", "form"}
  /\ Init /\ StreamInit /\ FormInit
  /\ focus # "hub" => written = 0

MCNext ==
  /\ \/ focus = "hub" /\ Next /\ UNCHANGED <<streamVars, formVars>>
     \/ focus = "stream" /\ StreamNext /\ UNCHANGED <<vars, formVars>>
     \/ focus = "form" /\ FormNext /\ UNCHANGED <<vars, streamVars>>
  /\ UNCHANGED focus

(* The fairness of FairSpec, and that of the browser's timers and sockets: a timer
   fires, and a socket that is being closed gets its close event. *)
MCSpec ==
  /\ MCInit /\ [][MCNext]_<<focus, vars, streamVars, formVars>>
  /\ WF_vars(focus = "hub" /\ ReadLine)
  /\ \A c \in Clients :
       WF_vars(focus = "hub" /\ Subscribe(c)) /\ WF_vars(focus = "hub" /\ Recheck(c))
  /\ WF_streamVars(focus = "stream" /\ Redial)
  /\ \A s \in Slots :
       WF_streamVars(focus = "stream" /\ sockets[s].state = "closing" /\ SocketCloses(s))

=============================================================================
