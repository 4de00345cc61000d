----------------------------- MODULE MCStorage -----------------------------
(* Storage on small instances: the payloads agents send, and few processes. *)
EXTENDS StorageHistory

CONSTANTS h1, h2, r1, s1, s2

MCTexts == {NoText, Blank, "fix", "done"}

Bare == [ name |-> "", source |-> "", ask |-> "", run |-> s1, env |-> NoText,
          prompt |-> NoText, inputs |-> NoText, direct |-> NoText,
          transcript |-> NoText, pane |-> NoText ]

Prompt(r) == [Bare EXCEPT !.name = "userpromptsubmit", !.run = r, !.prompt = "fix"]
BlankPrompt(r) == [Bare EXCEPT !.name = "userpromptsubmit", !.run = r, !.prompt = Blank]
ToolUse(r) == [Bare EXCEPT !.name = "posttooluse", !.run = r, !.transcript = "fix"]
Stop(r) == [Bare EXCEPT !.name = "stop", !.run = r, !.transcript = "done"]
Ask(r) == [Bare EXCEPT !.name = "notification", !.run = r, !.ask = "permission_prompt"]
Compacted(r) == [Bare EXCEPT !.name = "sessionstart", !.run = r, !.source = "compact"]
TurnComplete(r) ==
    [Bare EXCEPT !.name = "agentturncomplete", !.run = r, !.inputs = "fix", !.direct = "done"]

\* One run, four kinds of payloads.
OneRun == {Prompt(s1), ToolUse(s1), Stop(s1), Compacted(s1)}
\* One run whose texts are empty, blank or not, and another that asks: they interleave
\* in one log.
Mixed ==
    {BlankPrompt(s1), ToolUse(s1), TurnComplete(s1), Compacted(s1), Ask(s2)}
=============================================================================
