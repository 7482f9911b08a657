---------------------------- MODULE MCBotUpdates ----------------------------
EXTENDS BotUpdates

MCBindings == [u \in {"u1"} |-> "i1"]

(* Two users in one group chat: u1 is bound and subscribed, u2 is new.     *)
From(u, what) == [user |-> u, chat |-> "c1", what |-> what, text |-> NULL, kind |-> NULL, range |-> NULL]

MCInputs ==
  LET Text(u, text) == [From(u, "text") EXCEPT !.text = text]
      Analytics(kind, range) == [From("u1", "analytics") EXCEPT !.kind = kind, !.range = range]
  IN  {From("u1", "session"), From("u2", "subscribe"), From("u2", "start")}
      \cup {Text("u1", "day"), Text("u1", "i2"), Text("u2", "i1"), Text("u2", "i2")}
      \cup {Analytics("sessions", range) : range \in {"today", "custom"}}
      \cup {Analytics("km", "custom")}
=============================================================================
