----------------------------- MODULE HookEvents -----------------------------
(***************************************************************************)
(* What a hook makes of the payload an agent gives it (src/src/hooks.rs):  *)
(* the state the payload stands for, or nothing, and the texts the event   *)
(* carries.                                                                *)
(*                                                                         *)
(* A payload is a record of the fields the code looks at:                  *)
(*   name        the event name, lower case, '_' and '-' dropped           *)
(*   source      "source" of a session start                               *)
(*   ask         "notification_type" of a notification                     *)
(*   run         the run it belongs to (provider and session id)           *)
(*   env         the LLM_WATCH_TASK variable                               *)
(*   prompt      "prompt" / "input"                                        *)
(*   inputs      "input_messages" / "input-messages"                       *)
(*   direct      "last-assistant-message"                                  *)
(*   transcript  the last assistant text in the transcript's tail, if any  *)
(*   pane        the tmux target                                           *)
(* A text is a name for a text; NoText is the empty one and Blank one of   *)
(* white space only.                                                       *)
(***************************************************************************)

NoText == ""
Blank == "blank"

\* The fields a run keeps when a later event leaves them empty.
Sticky == {"task", "tmux", "message"}

States == {"running", "ready", "approval", "error", "stopped", "idle"}
Ignored == "ignored"

\* The state an event name stands for by itself.
NamedState ==
    [ userpromptsubmit  |-> "running",
      posttooluse       |-> "running",
      agentturncomplete |-> "ready",
      stop              |-> "ready",
      stopfailure       |-> "error",
      sessionend        |-> "stopped",
      permissionrequest |-> "approval" ]

AskedState == [ permission_prompt |-> "approval", idle_prompt |-> "ready" ]

NormalizeState(p) ==
    CASE p.name \in DOMAIN NamedState -> NamedState[p.name]
      [] p.name = "sessionstart" /\ p.source # "compact" -> "idle"
      [] p.name = "notification" /\ p.ask \in DOMAIN AskedState -> AskedState[p.ask]
      [] OTHER -> Ignored

\* Whether a hook has anything to record.
IsRecorded(p) == NormalizeState(p) # Ignored

\* A tool-use heartbeat: it refreshes the run but is not logged.
IsActivity(p) == p.name = "posttooluse"

\* Runs of white space become one space, leading and trailing ones go: only
\* whether anything is left matters here.
Compact(text) == IF text = Blank THEN NoText ELSE text

FirstOf(first, second) == IF first # NoText THEN first ELSE second

\* LLM_WATCH_TASK wins; else a prompt names the task of a running turn, and the
\* input messages that of a completed Codex turn.
TaskOf(p) ==
    LET prompted == FirstOf(Compact(p.prompt), Compact(p.inputs))
        fallback == CASE NormalizeState(p) = "running" /\ ~IsActivity(p) -> prompted
                      [] p.name = "agentturncomplete" -> Compact(p.inputs)
                      [] OTHER -> NoText
    IN  FirstOf(Compact(p.env), fallback)

\* Codex puts the text in the payload; Claude only names its transcript. A
\* direct text of white space only still hides the transcript.
LastAssistantMessage(p) ==
    IF p.direct # NoText THEN Compact(p.direct) ELSE p.transcript

MessageOf(p) == IF IsActivity(p) THEN NoText ELSE LastAssistantMessage(p)

TextOf(p) ==
    [field \in Sticky |->
        CASE field = "task" -> TaskOf(p)
          [] field = "tmux" -> p.pane
          [] field = "message" -> MessageOf(p)]

\* The event a payload becomes; only for a payload whose state is not Ignored.
NormalizeEvent(p) ==
    [ run      |-> p.run,
      state    |-> NormalizeState(p),
      activity |-> IsActivity(p),
      text     |-> TextOf(p) ]
=============================================================================
