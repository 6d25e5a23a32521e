---------------------------- MODULE MCForeground ----------------------------
(* Small instances of Foreground for TLC. *)
EXTENDS Foreground

Scheduled == <<"text", "scheduled">>
Callback == <<"text", "callback">>

OneText == {<<"text">>}
Mixed == {Scheduled, Callback, <<"text", "text">>, <<"command", "wake">>,
          <<"refused", "ignored">>, <<"malformed", "text">>}
Recovering == {Scheduled, Callback}

Sending == {"send"}
AfterCommit == {"resolve", "attach", "completeTask"}
Anywhere == ProgramPoints
=============================================================================
