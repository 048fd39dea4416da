-------------------------- MODULE MCOrderLifecycle --------------------------
(* A bracket of orders, and the commands that disturb it. *)
EXTENDS OrderLifecycle

None == -1

\* The fields of a command that an order is built from.
Cmd(action, id, target) ==
  [action |-> action, id |-> id, target |-> target, side |-> 1, qty |-> 2,
   tif |-> "GTC", reduce_only |-> FALSE, parent |-> None, oco |-> None,
   expires |-> None, activation |-> Immediate]

\* An entry, its take-profit and its stop in one OCO group.
Entry  == Cmd("PLACE", 1, None)
Profit == [Cmd("PLACE", 2, None) EXCEPT !.side = -1, !.parent = 1, !.oco = 7,
             !.reduce_only = TRUE, !.activation = FirstFill]
Stop   == [Cmd("PLACE", 3, None) EXCEPT !.side = -1, !.parent = 1, !.oco = 7,
             !.tif = "IOC", !.activation = FullFill]

BracketCommands ==
  {Entry, Profit, Stop,
   [Cmd("AMEND", None, 1) EXCEPT !.qty = 1],
   [Cmd("REPLACE", 1, 1) EXCEPT !.tif = "FOK"],
   [Cmd("CANCEL_ALL", None, None) EXCEPT !.side = 0, !.oco = 7]}

\* Orders that expire, siblings that are both active, and replacements that
\* pass ids on, take over an id in use, or are themselves refused.  Their ids
\* are apart from those of the bracket.
ReplaceCommands ==
  {[Cmd("PLACE", 11, None) EXCEPT !.tif = "GTD", !.expires = 1],
   [Cmd("PLACE", 12, None) EXCEPT !.oco = 8, !.qty = 1],
   Cmd("REPLACE", 13, 11),
   [Cmd("REPLACE", 12, 13) EXCEPT !.oco = 8, !.tif = "GTD", !.expires = 2],
   [Cmd("REPLACE", 14, 12) EXCEPT !.qty = 0],
   Cmd("CANCEL", None, 11)}

BothCommands == BracketCommands \cup ReplaceCommands

\* Bounds.  Between two resets a session sees the orders of one of the two
\* sets: a bracket has two bars, four commands and both liquidities, the
\* replacements have three bars, five commands and the smaller liquidity.
\* Sessions that mix the two are cut, not covered.
BracketOnly ==
  /\ \A h \in DOMAIN placed : placed[h].order.id < 10
  /\ sent <= 4
  /\ next_bar < 2 \/ phase = "idle"

ReplaceOnly ==
  /\ \A h \in DOMAIN placed : placed[h].order.id > 10
  /\ liquidity.capacity # 3

OneKind == BracketOnly \/ ReplaceOnly
=============================================================================
