------------------------ MODULE FeedbackSessionProofs ------------------------
(***************************************************************************)
(* Proofs about the feedback session, for any market, any batches of       *)
(* commands and any number of orders and bars: what the session keeps      *)
(* between its bars, and that it implements the history of atomic bars.    *)
(***************************************************************************)
EXTENDS FeedbackSession, DataLemmas

\* The operation of a fold over fills, for DataLemmas.
FilledAt(bar, t, o) == Filled(t, o, bar)

Fills == INSTANCE DataLemmas WITH Op <- FilledAt

-----------------------------------------------------------------------------
(* Orders in sequence order *)

\* Distinct sequences, none ahead of the session's counter.
Numbered(s) ==
  /\ IsFiniteSet(s.orders)
  /\ \A p \in s.orders : p.sequence <= s.sequence
  /\ \A p, q \in s.orders : p.sequence = q.sequence => p = q

\* InOrder enumerates its orders without repeating one.
LEMMA InOrderEnumerates ==
  ASSUME NEW F, IsFiniteSet(F), \A p \in F : p.sequence \in Int,
         \A p, q \in F : p.sequence = q.sequence => p = q
  PROVE  /\ Cardinality(F) \in Nat
         /\ DOMAIN InOrder(F) = 1..Cardinality(F)
         /\ \A i \in 1..Cardinality(F) : InOrder(F)[i] \in F
         /\ \A i, j \in 1..Cardinality(F) : InOrder(F)[i] = InOrder(F)[j] => i = j
<1> DEFINE key == [p \in F |-> p.sequence]
           Rank(o) == Cardinality({p \in F : p.sequence < o.sequence})
<1>1. \A o \in F : Below(F, key, o) = {p \in F : p.sequence < o.sequence}
  BY DEF Below
<1>2. \A o \in F : Rank(o) = Cardinality(Below(F, key, o))
  BY <1>1
<1>3. (\A p \in F : key[p] \in Int) /\ \A p, q \in F : key[p] = key[q] => p = q
  OBVIOUS
<1>4. \A i \in 1..Cardinality(F) : \E o \in F : Cardinality(Below(F, key, o)) = i - 1
  <2> HIDE DEF key
  <2> QED BY <1>3, Ranked
<1>5. Cardinality(F) \in Nat
  BY FS_CardinalityType
<1>6. /\ DOMAIN InOrder(F) = 1..Cardinality(F)
      /\ \A i \in 1..Cardinality(F) : InOrder(F)[i] = CHOOSE o \in F : Rank(o) = i - 1
  BY DEF InOrder
<1> HIDE DEF key, Rank
<1>7. ASSUME NEW i \in 1..Cardinality(F)
      PROVE  InOrder(F)[i] \in F /\ Rank(InOrder(F)[i]) = i - 1
  <2>1. \E o \in F : Rank(o) = i - 1
    BY <1>2, <1>4
  <2> QED BY <1>6, <2>1
<1> QED BY <1>5, <1>6, <1>7

-----------------------------------------------------------------------------
(* The fields of a session *)

SessionFields ==
  {"next_bar", "effects", "position", "liquidated", "orders", "sequence",
   "margin_cache", "snapshot", "version"}

IsRecord(s) == s = [x \in SessionFields |-> s[x]]

Build(next_bar, effects, position, liquidated, orders, sequence, margin_cache,
      snapshot, version) ==
  [next_bar |-> next_bar, effects |-> effects, position |-> position,
   liquidated |-> liquidated, orders |-> orders, sequence |-> sequence,
   margin_cache |-> margin_cache, snapshot |-> snapshot, version |-> version]

\* A record with these fields is all of them.
LEMMA RecordBuilt ==
  ASSUME NEW s, IsRecord(s)
  PROVE  /\ DOMAIN s = SessionFields
         /\ s = Build(s.next_bar, s.effects, s.position, s.liquidated, s.orders,
                      s.sequence, s.margin_cache, s.snapshot, s.version)
<1>1. s = [x \in SessionFields |-> s[x]]
  BY DEF IsRecord
<1>2. DOMAIN s = SessionFields
  BY <1>1
<1>3. s = Build(s.next_bar, s.effects, s.position, s.liquidated, s.orders,
                s.sequence, s.margin_cache, s.snapshot, s.version)
  BY <1>1 DEF SessionFields, Build
<1> QED BY <1>2, <1>3

LEMMA BuildIsRecord ==
  ASSUME NEW a, NEW b, NEW c, NEW d, NEW e, NEW f, NEW g, NEW h, NEW i
  PROVE  /\ IsRecord(Build(a, b, c, d, e, f, g, h, i))
         /\ Build(a, b, c, d, e, f, g, h, i).next_bar = a
         /\ Build(a, b, c, d, e, f, g, h, i).effects = b
         /\ Build(a, b, c, d, e, f, g, h, i).position = c
         /\ Build(a, b, c, d, e, f, g, h, i).liquidated = d
         /\ Build(a, b, c, d, e, f, g, h, i).orders = e
         /\ Build(a, b, c, d, e, f, g, h, i).sequence = f
         /\ Build(a, b, c, d, e, f, g, h, i).margin_cache = g
         /\ Build(a, b, c, d, e, f, g, h, i).snapshot = h
         /\ Build(a, b, c, d, e, f, g, h, i).version = i
BY DEF Build, IsRecord, SessionFields

LEMMA BuildVersion ==
  ASSUME NEW a, NEW b, NEW c, NEW d, NEW e, NEW f, NEW g, NEW h, NEW i, NEW v
  PROVE  [Build(a, b, c, d, e, f, g, h, i) EXCEPT !.version = v]
           = Build(a, b, c, d, e, f, g, h, v)
BY DEF Build

Snapshots ==
  [valid : BOOLEAN, bar : Nat, version : 0..Versions - 1,
   effects : Seq(Seq(Effects)), margin : Margins]

\* The types of the fields.
Typed(s) ==
  /\ IsRecord(s)
  /\ s.next_bar \in 0..Bars
  /\ s.effects \in Seq(Seq(Effects))
  /\ s.position \in Int
  /\ s.liquidated \in BOOLEAN
  /\ s.orders \in SUBSET Orders
  /\ s.sequence \in 0..MaxOrders
  /\ s.margin_cache \in Margins
  /\ s.snapshot \in Snapshots
  /\ s.version \in 0..Versions - 1

LEMMA TypedIsSession ==
  ASSUME NEW s
  PROVE  Typed(s) <=> s \in Sessions
<1>1. ASSUME Typed(s) PROVE s \in Sessions
  <2>1. s = Build(s.next_bar, s.effects, s.position, s.liquidated, s.orders,
                  s.sequence, s.margin_cache, s.snapshot, s.version)
    BY <1>1, RecordBuilt DEF Typed
  <2>2. /\ s.next_bar \in 0..Bars /\ s.effects \in Seq(Seq(Effects)) /\ s.position \in Int
        /\ s.liquidated \in BOOLEAN /\ s.orders \in SUBSET Orders /\ s.sequence \in 0..MaxOrders
        /\ s.margin_cache \in Margins /\ s.snapshot \in Snapshots /\ s.version \in 0..Versions - 1
    BY <1>1 DEF Typed
  <2>3. ASSUME NEW a \in 0..Bars, NEW b \in Seq(Seq(Effects)), NEW c \in Int,
               NEW d \in BOOLEAN, NEW e \in SUBSET Orders, NEW f \in 0..MaxOrders,
               NEW g \in Margins, NEW h \in Snapshots, NEW i \in 0..Versions - 1
        PROVE  Build(a, b, c, d, e, f, g, h, i) \in Sessions
    BY DEF Build, Sessions, Snapshots
  <2>4. Build(s.next_bar, s.effects, s.position, s.liquidated, s.orders, s.sequence,
              s.margin_cache, s.snapshot, s.version) \in Sessions
    BY <2>2, <2>3
  <2> QED BY <2>1, <2>4
<1>2. ASSUME s \in Sessions PROVE Typed(s)
  <2>1. s = [x \in SessionFields |-> s[x]]
    BY <1>2 DEF Sessions, SessionFields
  <2>2. /\ s.next_bar \in 0..Bars /\ s.effects \in Seq(Seq(Effects)) /\ s.position \in Int
        /\ s.liquidated \in BOOLEAN /\ s.orders \in SUBSET Orders /\ s.sequence \in 0..MaxOrders
        /\ s.margin_cache \in Margins /\ s.snapshot \in Snapshots /\ s.version \in 0..Versions - 1
    BY <1>2, Zenon DEF Sessions, Snapshots
  <2> QED BY <2>1, <2>2 DEF Typed, IsRecord
<1> QED BY <1>1, <1>2

-----------------------------------------------------------------------------
(* Checkpoints *)

LEMMA CapturedIsAll ==
  ASSUME NEW s, IsRecord(s)
  PROVE  Captured(s) = s
<1>1. Captured(s) = Build(s.next_bar, s.effects, s.position, s.liquidated, s.orders,
                          s.sequence, s.margin_cache, s.snapshot, s.version)
  BY DEF Captured, Build
<1> QED BY <1>1, RecordBuilt

\* Restoring a checkpoint leaves nothing of the session it is restored over.
LEMMA RestoredIsAll ==
  ASSUME NEW c, NEW s, IsRecord(c), IsRecord(s)
  PROVE  Restored(c, s) = c
<1> DEFINE u == Restored(c, s)
<1>1. DOMAIN s = SessionFields /\ DOMAIN c = SessionFields
  BY RecordBuilt
<1>2. /\ u.next_bar = c.next_bar /\ u.effects = c.effects /\ u.position = c.position
      /\ u.liquidated = c.liquidated /\ u.orders = c.orders /\ u.sequence = c.sequence
      /\ u.margin_cache = c.margin_cache /\ u.snapshot = c.snapshot /\ u.version = c.version
  BY <1>1 DEF Restored, SessionFields
<1>3. u = [x \in SessionFields |-> u[x]]
  BY <1>1 DEF Restored
<1> HIDE DEF u
<1>4. u = Build(c.next_bar, c.effects, c.position, c.liquidated, c.orders,
                c.sequence, c.margin_cache, c.snapshot, c.version)
  BY <1>2, <1>3, RecordBuilt DEF IsRecord
<1>5. u = c
  BY <1>4, RecordBuilt
<1> QED BY <1>5 DEF u
-----------------------------------------------------------------------------
(* A session in the middle of a step *)

\* A cached margin is that of the position.
CacheCurrent(s) == s.margin_cache.valid => s.margin_cache.notional = Abs(s.position)

\* h: the effects of the bars before; E: those of the open bar so far.
Mid(t, h, E, bar) ==
  /\ IsRecord(t)
  /\ h \in Seq(Seq(Effects)) /\ Len(h) = bar
  /\ t.next_bar = bar
  /\ E \in Seq(Effects) /\ t.effects = Append(h, E)
  /\ t.position \in Int
  /\ t.liquidated \in BOOLEAN
  /\ t.orders \in SUBSET Orders /\ t.sequence \in 0..MaxOrders /\ Numbered(t)
  /\ t.margin_cache \in Margins /\ CacheCurrent(t)
  /\ t.snapshot = NoSnapshot
  /\ t.version \in 0..Versions - 1

\* What u has of t besides its effects, its version and its margin cache.
SameBook(t, u) ==
  /\ u.position = t.position /\ u.liquidated = t.liquidated
  /\ u.orders = t.orders /\ u.sequence = t.sequence

LEMMA VersionWraps ==
  ASSUME NEW v \in 0..Versions - 1
  PROVE  NextVersion(v) \in 0..Versions - 1
BY FeedbackAssumption DEF NextVersion

LEMMA AbsIsNat ==
  ASSUME NEW n \in Int
  PROVE  Abs(n) \in Nat
BY DEF Abs

\* The current bar's effects, with one more.
LEMMA OneMoreEffect ==
  ASSUME NEW S, NEW h \in Seq(Seq(S)), NEW E \in Seq(S), NEW e \in S
  PROVE  [Append(h, E) EXCEPT ![Len(Append(h, E))] = Append(@, e)] = Append(h, Append(E, e))
<1> DEFINE a == Append(h, E)
           b == Append(h, Append(E, e))
           n == Len(h) + 1
<1>1. Append(E, e) \in Seq(S)
  OBVIOUS
<1>2. /\ a \in Seq(Seq(S)) /\ Len(a) = n /\ a[n] = E
      /\ \A i \in 1..Len(h) : a[i] = h[i]
  OBVIOUS
<1>3. /\ b \in Seq(Seq(S)) /\ Len(b) = n /\ b[n] = Append(E, e)
      /\ \A i \in 1..Len(h) : b[i] = h[i]
  BY <1>1
<1>4. Len(h) \in Nat /\ n = Len(h) + 1
  OBVIOUS
<1> HIDE DEF a, b, n
<1>5. [a EXCEPT ![n] = Append(@, e)] = b
  <2> DEFINE c == [a EXCEPT ![n] = Append(@, e)]
  <2>1. DOMAIN a = 1..n /\ DOMAIN b = 1..n
    BY <1>2, <1>3
  <2>2. c = [i \in 1..n |-> IF i = n THEN Append(a[n], e) ELSE a[i]]
    BY <2>1
  <2>3. b = [i \in 1..n |-> b[i]]
    BY <1>3, <2>1
  <2>4. ASSUME NEW i \in 1..n
        PROVE  (IF i = n THEN Append(a[n], e) ELSE a[i]) = b[i]
    <3>1. CASE i = n
      <4>1. a[n] = E /\ b[n] = Append(E, e)
        BY <1>2, <1>3
      <4> QED BY <3>1, <4>1
    <3>2. CASE i # n
      <4>1. i \in 1..Len(h)
        BY <1>4, <3>2
      <4>2. a[i] = h[i] /\ b[i] = h[i]
        BY <1>2, <1>3, <4>1
      <4> QED BY <3>2, <4>2
    <3> QED BY <3>1, <3>2
  <2> HIDE DEF c
  <2>5. c = b
    BY <2>2, <2>3, <2>4
  <2> QED BY <2>5 DEF c
<1>6. Len(a) = n
  BY <1>2
<1> QED BY <1>5, <1>6 DEF a, b

LEMMA WithMid ==
  ASSUME NEW t, NEW h, NEW E, NEW bar, Mid(t, h, E, bar), NEW e \in Effects
  PROVE  /\ Mid(With(t, e), h, Append(E, e), bar)
         /\ SameBook(t, With(t, e)) /\ With(t, e).margin_cache = t.margin_cache
<1> DEFINE u == With(t, e)
<1>1. DOMAIN t = SessionFields
  BY RecordBuilt DEF Mid
<1>2. /\ u.effects = [t.effects EXCEPT ![Len(t.effects)] = Append(@, e)]
      /\ u.version = NextVersion(t.version)
  BY <1>1 DEF With, SessionFields
<1>3. /\ u.next_bar = t.next_bar /\ u.position = t.position
      /\ u.liquidated = t.liquidated /\ u.orders = t.orders /\ u.sequence = t.sequence
      /\ u.margin_cache = t.margin_cache /\ u.snapshot = t.snapshot
  BY <1>1 DEF With, SessionFields
<1>4. IsRecord(u)
  BY <1>1 DEF With, IsRecord
<1> HIDE DEF u
<1>5. u.effects = Append(h, Append(E, e))
  BY <1>2, OneMoreEffect DEF Mid
<1>6. u.version \in 0..Versions - 1
  BY <1>2, VersionWraps DEF Mid
<1>7. Append(E, e) \in Seq(Effects)
  BY DEF Mid
<1>8. Numbered(u) /\ CacheCurrent(u)
  BY <1>3 DEF Mid, Numbered, CacheCurrent
<1>9. Mid(u, h, Append(E, e), bar)
  BY <1>3, <1>4, <1>5, <1>6, <1>7, <1>8 DEF Mid
<1>10. SameBook(t, u) /\ u.margin_cache = t.margin_cache
  BY <1>3 DEF SameBook
<1> QED BY <1>9, <1>10 DEF u

\* After a read of the margin the cache holds the margin of this bar.
ReadAt(s, bar) ==
  s.margin_cache = [valid |-> TRUE, bar |-> bar, notional |-> Abs(s.position)]

LEMMA MarginFields ==
  ASSUME NEW c \in Margins
  PROVE  /\ c = [valid |-> c.valid, bar |-> c.bar, notional |-> c.notional]
         /\ c.valid \in BOOLEAN /\ c.bar \in Nat /\ c.notional \in Nat
BY DEF Margins

\* A read of the margin writes the cache and nothing else.
LEMMA MarginReadFields ==
  ASSUME NEW t, NEW bar \in Nat, IsRecord(t), t.margin_cache \in Margins, t.position \in Int,
         CacheCurrent(t)
  PROVE  /\ IsRecord(MarginRead(t, bar)) /\ SameBook(t, MarginRead(t, bar))
         /\ MarginRead(t, bar).next_bar = t.next_bar
         /\ MarginRead(t, bar).effects = t.effects
         /\ MarginRead(t, bar).snapshot = t.snapshot
         /\ MarginRead(t, bar).version = t.version
         /\ MarginRead(t, bar).margin_cache \in Margins
         /\ CacheCurrent(MarginRead(t, bar)) /\ ReadAt(MarginRead(t, bar), bar)
<1>1. DOMAIN t = SessionFields
  BY RecordBuilt
<1>2. CASE t.margin_cache.valid /\ t.margin_cache.bar = bar
  <2>1. MarginRead(t, bar) = t
    BY <1>2 DEF MarginRead
  <2>2. t.margin_cache.valid = TRUE
    BY <1>2, MarginFields
  <2>3. t.margin_cache = [valid |-> TRUE, bar |-> bar, notional |-> Abs(t.position)]
    BY <1>2, <2>2, MarginFields DEF CacheCurrent
  <2>4. ReadAt(t, bar)
    BY <2>3 DEF ReadAt
  <2> QED BY <2>1, <2>4 DEF SameBook
<1>3. CASE ~(t.margin_cache.valid /\ t.margin_cache.bar = bar)
  <2> DEFINE c == [valid |-> TRUE, bar |-> bar, notional |-> Abs(t.position)]
             u == [t EXCEPT !.margin_cache = c]
  <2>1. MarginRead(t, bar) = u
    BY <1>3 DEF MarginRead
  <2>2. c \in Margins /\ c.notional = Abs(t.position)
    BY AbsIsNat DEF Margins
  <2> HIDE DEF c
  <2>3. /\ u.margin_cache = c /\ u.effects = t.effects /\ u.version = t.version
        /\ u.next_bar = t.next_bar /\ u.position = t.position
        /\ u.liquidated = t.liquidated /\ u.orders = t.orders /\ u.sequence = t.sequence
        /\ u.snapshot = t.snapshot
    BY <1>1 DEF SessionFields
  <2>4. IsRecord(u)
    BY <1>1 DEF IsRecord
  <2> HIDE DEF u
  <2>5. CacheCurrent(u)
    BY <2>2, <2>3 DEF CacheCurrent
  <2>6. ReadAt(u, bar)
    BY <2>3 DEF ReadAt, c
  <2>7. SameBook(t, u)
    BY <2>3 DEF SameBook
  <2> QED BY <2>1, <2>2, <2>3, <2>4, <2>5, <2>6, <2>7
<1> QED BY <1>2, <1>3

LEMMA MarginReadMid ==
  ASSUME NEW t, NEW h, NEW E, NEW bar \in Nat, Mid(t, h, E, bar)
  PROVE  /\ Mid(MarginRead(t, bar), h, E, bar)
         /\ SameBook(t, MarginRead(t, bar)) /\ ReadAt(MarginRead(t, bar), bar)
<1> DEFINE u == MarginRead(t, bar)
<1>1. IsRecord(t) /\ t.margin_cache \in Margins /\ t.position \in Int /\ CacheCurrent(t)
  BY DEF Mid
<1>2. /\ IsRecord(u) /\ SameBook(t, u)
      /\ u.next_bar = t.next_bar /\ u.effects = t.effects
      /\ u.snapshot = t.snapshot /\ u.version = t.version
      /\ u.margin_cache \in Margins /\ CacheCurrent(u) /\ ReadAt(u, bar)
  BY <1>1, MarginReadFields
<1> HIDE DEF u
<1>3. Numbered(u)
  BY <1>2 DEF Mid, Numbered, SameBook
<1>4. Mid(u, h, E, bar)
  BY <1>2, <1>3 DEF Mid, SameBook
<1> QED BY <1>2, <1>4 DEF u

LEMMA EffectIs ==
  ASSUME NEW kind \in {"mark", "funding", "fill", "liquidate"}, NEW bar \in Nat,
         NEW order \in Nat
  PROVE  /\ Effect(kind, bar, order) \in Effects
         /\ Effect(kind, bar, order).kind = kind /\ Effect(kind, bar, order).bar = bar
         /\ Effect(kind, bar, order).order = order
BY DEF Effect, Effects

\* A fill: one more effect, and the cached margin follows the position.
LEMMA FilledMid ==
  ASSUME NEW t, NEW h, NEW E, NEW bar \in Nat, Mid(t, h, E, bar), NEW o \in Orders
  PROVE  /\ Mid(Filled(t, o, bar), h, Append(E, Effect("fill", bar, o.sequence)), bar)
         /\ Filled(t, o, bar).orders = t.orders \ {o}
         /\ Filled(t, o, bar).liquidated = t.liquidated
<1> DEFINE s1 == MarginRead(t, bar)
           e == Effect("fill", bar, o.sequence)
           w == With(s1, e)
           new == s1.position + o.side
           u == [w EXCEPT !.position = new,
                          !.margin_cache.notional = @ + Abs(new) - Abs(s1.position),
                          !.orders = @ \ {o}]
<1>1. o.sequence \in Nat /\ o.side \in Int
  BY DEF Orders
<1>2. e \in Effects
  BY <1>1, EffectIs
<1>3. Mid(s1, h, E, bar) /\ SameBook(t, s1) /\ ReadAt(s1, bar)
  BY MarginReadMid
<1>4. Mid(w, h, Append(E, e), bar) /\ SameBook(s1, w) /\ w.margin_cache = s1.margin_cache
  <2> HIDE DEF s1, e
  <2> QED BY <1>2, <1>3, WithMid
<1>5. Filled(t, o, bar) = u
  BY DEF Filled
<1>6. new \in Int /\ s1.position \in Int
  BY <1>1, <1>3 DEF Mid
<1> HIDE DEF s1, e, w, new
<1>7. DOMAIN w = SessionFields
  BY <1>4, RecordBuilt DEF Mid
<1>8. /\ u.margin_cache = [w.margin_cache EXCEPT !.notional = @ + Abs(new) - Abs(s1.position)]
      /\ u.position = new /\ u.orders = w.orders \ {o}
  BY <1>7 DEF SessionFields
<1>9. /\ u.effects = w.effects /\ u.version = w.version
      /\ u.next_bar = w.next_bar /\ u.liquidated = w.liquidated
      /\ u.sequence = w.sequence /\ u.snapshot = w.snapshot
  BY <1>7 DEF SessionFields
<1>10. IsRecord(u)
  BY <1>7 DEF IsRecord
<1> HIDE DEF u
<1>11. u.margin_cache = [valid |-> TRUE, bar |-> bar, notional |-> Abs(new)]
  <2>1. w.margin_cache = [valid |-> TRUE, bar |-> bar, notional |-> Abs(s1.position)]
    BY <1>3, <1>4 DEF ReadAt
  <2>2. Abs(s1.position) \in Nat /\ Abs(new) \in Nat
    BY <1>6, AbsIsNat
  <2>3. ASSUME NEW x \in Nat, NEW y \in Nat, NEW v, NEW c,
               c = [valid |-> v, bar |-> bar, notional |-> x]
        PROVE  [c EXCEPT !.notional = c.notional + y - x]
                 = [valid |-> v, bar |-> bar, notional |-> y]
    <3>1. x + y - x = y
      OBVIOUS
    <3>2. c.notional = x
      BY <2>3
    <3>3. [c EXCEPT !.notional = c.notional + y - x] = [c EXCEPT !.notional = y]
      BY <3>1, <3>2
    <3>4. [c EXCEPT !.notional = y] = [valid |-> v, bar |-> bar, notional |-> y]
      BY <2>3
    <3> QED BY <3>3, <3>4
  <2>4. ASSUME NEW x, NEW y, NEW c, x \in Nat, y \in Nat,
               c = [valid |-> TRUE, bar |-> bar, notional |-> x]
        PROVE  [c EXCEPT !.notional = c.notional + y - x]
                 = [valid |-> TRUE, bar |-> bar, notional |-> y]
    BY <2>3, <2>4, Zenon
  <2>5. [w.margin_cache EXCEPT !.notional = @ + Abs(new) - Abs(s1.position)]
          = [valid |-> TRUE, bar |-> bar, notional |-> Abs(new)]
    BY <2>1, <2>2, <2>4, Zenon
  <2> QED BY <1>8, <2>5
<1>12. u.margin_cache \in Margins /\ u.margin_cache.notional = Abs(new)
  <2>1. Abs(new) \in Nat
    BY <1>6, AbsIsNat
  <2> QED BY <1>11, <2>1 DEF Margins
<1>13. CacheCurrent(u)
  BY <1>8, <1>12 DEF CacheCurrent
<1>14. u.orders \in SUBSET Orders /\ Numbered(u)
  <2>1. IsFiniteSet(w.orders \ {o})
    BY <1>4, FS_Subset DEF Mid, Numbered
  <2> QED BY <1>4, <1>8, <1>9, <2>1 DEF Mid, Numbered
<1>15. Mid(u, h, Append(E, e), bar)
  BY <1>4, <1>6, <1>8, <1>9, <1>10, <1>12, <1>13, <1>14 DEF Mid
<1>16. u.orders = t.orders \ {o} /\ u.liquidated = t.liquidated
  BY <1>3, <1>4, <1>8, <1>9 DEF SameBook
<1> QED BY <1>5, <1>15, <1>16 DEF e
-----------------------------------------------------------------------------
(* The effects of a bar *)

\* E may go on: marked first where a mark is due, and no order filled twice.
Started(E, bar) ==
  /\ E \in Seq(Effects)
  /\ \A i \in 1..Len(E) :
       /\ E[i].bar = bar
       /\ E[i].kind # "liquidate"
       /\ E[i].kind = "mark" <=> i = 1 /\ bar > 0
       /\ E[i].kind = "funding" => i \in {1, 2} /\ bar \in FundingBars
  /\ bar > 0 => Len(E) > 0
  /\ \A i, j \in 1..Len(E) : E[i].kind = "fill" /\ E[i] = E[j] => i = j

FundedBy(E, bar) ==
  bar \in FundingBars => \E i \in 1..Len(E) : E[i].kind = "funding"

\* Nothing in E is the fill of one of the orders.
Unfilled(E, orders) ==
  \A i \in 1..Len(E), o \in orders : E[i].kind = "fill" => E[i].order # o.sequence

NoFills(E) == \A i \in 1..Len(E) : E[i].kind # "fill"

EndsLiquidated(E) == E # << >> /\ E[Len(E)].kind = "liquidate"

LEMMA AppendElements ==
  ASSUME NEW S, NEW E \in Seq(S), NEW e \in S
  PROVE  /\ Append(E, e) \in Seq(S) /\ Len(E) \in Nat
         /\ Len(Append(E, e)) = Len(E) + 1
         /\ Append(E, e)[Len(E) + 1] = e
         /\ \A i \in 1..Len(E) : Append(E, e)[i] = E[i]
         /\ 1..(Len(E) + 1) = (1..Len(E)) \cup {Len(E) + 1}
         /\ Append(E, e) # << >>
<1>1. /\ Append(E, e) \in Seq(S) /\ Len(E) \in Nat
      /\ Len(Append(E, e)) = Len(E) + 1
      /\ Append(E, e)[Len(E) + 1] = e
      /\ \A i \in 1..Len(E) : Append(E, e)[i] = E[i]
  OBVIOUS
<1>2. 1..(Len(E) + 1) = (1..Len(E)) \cup {Len(E) + 1}
  BY <1>1
<1>3. Append(E, e) # << >>
  <2>1. Len(Append(E, e)) # 0
    BY <1>1
  <2>2. Len(<< >>) = 0
    OBVIOUS
  <2> QED BY <2>1, <2>2, Zenon
<1> QED BY <1>1, <1>2, <1>3

\* A bar starts with nothing, the first bar stays without a mark.
LEMMA NothingYet ==
  /\ << >> \in Seq(Effects) /\ Len(<< >>) = 0
  /\ NoFills(<< >>)
  /\ Started(<< >>, 0)
<1>1. << >> \in Seq(Effects) /\ Len(<< >>) = 0 /\ 1..0 = {}
  OBVIOUS
<1> QED BY <1>1 DEF NoFills, Started

LEMMA MarkStarts ==
  ASSUME NEW bar \in Nat, bar > 0
  PROVE  /\ Started(Append(<< >>, Effect("mark", bar, 0)), bar)
         /\ NoFills(Append(<< >>, Effect("mark", bar, 0)))
         /\ Len(Append(<< >>, Effect("mark", bar, 0))) = 1
<1> DEFINE e == Effect("mark", bar, 0)
           E == Append(<< >>, e)
<1>1. e \in Effects /\ e.kind = "mark" /\ e.bar = bar
  BY EffectIs
<1> HIDE DEF e
<1>2. E \in Seq(Effects) /\ Len(E) = 1 /\ E[1] = e
  BY <1>1
<1> HIDE DEF E
<1>3. 1..Len(E) = {1}
  BY <1>2
<1>4. Started(E, bar) /\ NoFills(E)
  BY <1>1, <1>2, <1>3 DEF Started, NoFills
<1> QED BY <1>2, <1>4 DEF E, e

LEMMA FundingGoesOn ==
  ASSUME NEW bar \in FundingBars, NEW E, Started(E, bar), NoFills(E), Len(E) <= 1
  PROVE  LET G == Append(E, Effect("funding", bar, 0)) IN
         Started(G, bar) /\ NoFills(G) /\ FundedBy(G, bar)
<1> DEFINE e == Effect("funding", bar, 0)
           G == Append(E, e)
           m == Len(E) + 1
<1>0. bar \in Nat
  BY FeedbackAssumption
<1>1. e \in Effects /\ e.kind = "funding" /\ e.bar = bar
  BY <1>0, EffectIs
<1>2. E \in Seq(Effects)
  BY DEF Started
<1> HIDE DEF e
<1>3. /\ G \in Seq(Effects) /\ Len(E) \in Nat /\ Len(G) = m /\ G[m] = e
      /\ \A i \in 1..Len(E) : G[i] = E[i]
      /\ 1..Len(G) = (1..Len(E)) \cup {m}
  BY <1>1, <1>2, AppendElements
<1> HIDE DEF G
<1>4. m \in {1, 2} /\ (bar > 0 => m # 1)
  BY <1>3 DEF Started
<1>5. \A i \in 1..Len(G) : i = m \/ (i \in 1..Len(E) /\ G[i] = E[i] /\ G[i].kind # "fill")
  BY <1>3 DEF NoFills
<1> HIDE DEF m
<1>6. \A i \in 1..Len(G) : G[i].kind # "fill"
  BY <1>1, <1>3, <1>5
<1>7. Started(G, bar)
  <2>1. ASSUME NEW i \in 1..Len(G)
        PROVE  /\ G[i].bar = bar
               /\ G[i].kind # "liquidate"
               /\ G[i].kind = "mark" <=> i = 1 /\ bar > 0
               /\ G[i].kind = "funding" => i \in {1, 2} /\ bar \in FundingBars
    <3>1. CASE i = m
      BY <1>1, <1>3, <1>4, <3>1
    <3>2. CASE i \in 1..Len(E) /\ G[i] = E[i]
      BY <3>2 DEF Started
    <3> QED BY <1>5, <3>1, <3>2
  <2>2. bar > 0 => Len(G) > 0
    BY <1>3, <1>4
  <2> QED BY <1>3, <1>6, <2>1, <2>2 DEF Started
<1>8. FundedBy(G, bar)
  BY <1>1, <1>3 DEF FundedBy
<1> QED BY <1>6, <1>7, <1>8 DEF G, e, NoFills

LEMMA FillGoesOn ==
  ASSUME NEW bar \in Nat, NEW E, Started(E, bar), FundedBy(E, bar),
         NEW orders, \A p, q \in orders : p.sequence = q.sequence => p = q,
         Unfilled(E, orders), NEW o \in orders, o.sequence \in Nat
  PROVE  LET G == Append(E, Effect("fill", bar, o.sequence)) IN
         Started(G, bar) /\ FundedBy(G, bar) /\ Unfilled(G, orders \ {o})
<1> DEFINE e == Effect("fill", bar, o.sequence)
           G == Append(E, e)
           m == Len(E) + 1
<1>1. e \in Effects /\ e.kind = "fill" /\ e.bar = bar /\ e.order = o.sequence
  BY EffectIs
<1>2. E \in Seq(Effects)
  BY DEF Started
<1> HIDE DEF e
<1>3. /\ G \in Seq(Effects) /\ Len(E) \in Nat /\ Len(G) = m /\ G[m] = e
      /\ \A i \in 1..Len(E) : G[i] = E[i]
      /\ 1..Len(G) = (1..Len(E)) \cup {m}
  BY <1>1, <1>2, AppendElements
<1> HIDE DEF G
<1>4. (bar > 0 => m # 1) /\ m > 0 /\ m \notin 1..Len(E)
  BY <1>3 DEF Started
<1>5. \A i \in 1..Len(G) : i = m \/ (i \in 1..Len(E) /\ G[i] = E[i])
  BY <1>3
<1> HIDE DEF m
<1>6. \A i \in 1..Len(E) : E[i].kind = "fill" => E[i] # e
  BY <1>1 DEF Unfilled
<1>7. Started(G, bar)
  <2>1. ASSUME NEW i \in 1..Len(G)
        PROVE  /\ G[i].bar = bar
               /\ G[i].kind # "liquidate"
               /\ G[i].kind = "mark" <=> i = 1 /\ bar > 0
               /\ G[i].kind = "funding" => i \in {1, 2} /\ bar \in FundingBars
    <3>1. CASE i = m
      BY <1>1, <1>3, <1>4, <3>1
    <3>2. CASE i \in 1..Len(E) /\ G[i] = E[i]
      BY <3>2 DEF Started
    <3> QED BY <1>5, <3>1, <3>2
  <2>2. Len(G) > 0
    BY <1>3, <1>4
  <2>3. ASSUME NEW i \in 1..Len(G), NEW j \in 1..Len(G), G[i].kind = "fill", G[i] = G[j]
        PROVE  i = j
    <3>1. CASE i = m /\ j \in 1..Len(E) /\ G[j] = E[j]
      BY <1>3, <1>6, <2>3, <3>1
    <3>2. CASE j = m /\ i \in 1..Len(E) /\ G[i] = E[i]
      BY <1>3, <1>6, <2>3, <3>2
    <3>3. CASE /\ i \in 1..Len(E) /\ G[i] = E[i]
               /\ j \in 1..Len(E) /\ G[j] = E[j]
      BY <2>3, <3>3 DEF Started
    <3> QED BY <1>5, <3>1, <3>2, <3>3
  <2> QED BY <1>3, <2>1, <2>2, <2>3 DEF Started
<1>8. FundedBy(G, bar)
  BY <1>3 DEF FundedBy
<1>9. Unfilled(G, orders \ {o})
  <2>1. ASSUME NEW i \in 1..Len(G), NEW p \in orders \ {o}, G[i].kind = "fill"
        PROVE  G[i].order # p.sequence
    <3>1. CASE i = m
      BY <1>1, <1>3, <3>1
    <3>2. CASE i \in 1..Len(E) /\ G[i] = E[i]
      BY <2>1, <3>2 DEF Unfilled
    <3> QED BY <1>5, <3>1, <3>2
  <2> QED BY <2>1 DEF Unfilled
<1> QED BY <1>7, <1>8, <1>9 DEF G, e

LEMMA KindsAre ==
  ASSUME NEW E \in Seq(Effects)
  PROVE  \A i \in 1..Len(E) : E[i].kind \in {"mark", "funding", "fill", "liquidate"}
<1>1. \A i \in 1..Len(E) : E[i] \in Effects
  OBVIOUS
<1>2. \A e \in Effects : e.kind \in {"mark", "funding", "fill", "liquidate"}
  BY DEF Effects
<1> QED BY <1>1, <1>2

\* A funded bar is complete, and so is any that a liquidation ends.
LEMMA FundedIsComplete ==
  ASSUME NEW bar \in Nat, NEW E, Started(E, bar), FundedBy(E, bar)
  PROVE  Atomic!CompleteBar(E, bar) /\ ~EndsLiquidated(E)
<1>1. E \in Seq(Effects) /\ Len(E) \in Nat /\ DOMAIN E = 1..Len(E)
  BY DEF Started
<1>2. ASSUME bar > 0 PROVE E # << >>
  <2>1. Len(E) # 0 /\ Len(<< >>) = 0
    BY <1>1, <1>2 DEF Started
  <2> QED BY <2>1, Zenon
<1>3. \A i \in 1..Len(E) : E[i].kind \in {"mark", "funding", "fill", "liquidate"}
  BY <1>1, KindsAre
<1>4. ASSUME E # << >> PROVE Len(E) \in 1..Len(E)
  BY <1>1, <1>4
<1>5. ~EndsLiquidated(E)
  BY <1>4 DEF EndsLiquidated, Started
<1> QED BY <1>1, <1>2, <1>3, <1>5 DEF Started, FundedBy, Atomic!CompleteBar

LEMMA LiquidationCompletes ==
  ASSUME NEW bar \in Nat, NEW E, Started(E, bar)
  PROVE  LET G == Append(E, Effect("liquidate", bar, 0)) IN
         Atomic!CompleteBar(G, bar) /\ EndsLiquidated(G)
<1> DEFINE e == Effect("liquidate", bar, 0)
           G == Append(E, e)
           m == Len(E) + 1
<1>1. e \in Effects /\ e.kind = "liquidate" /\ e.bar = bar
  BY EffectIs
<1>2. E \in Seq(Effects)
  BY DEF Started
<1> HIDE DEF e
<1>3. /\ G \in Seq(Effects) /\ Len(E) \in Nat /\ Len(G) = m /\ G[m] = e
      /\ \A i \in 1..Len(E) : G[i] = E[i]
      /\ 1..Len(G) = (1..Len(E)) \cup {m} /\ G # << >>
      /\ DOMAIN G = 1..Len(G)
  BY <1>1, <1>2, AppendElements
<1> HIDE DEF G
<1>4. (bar > 0 => m # 1) /\ m > 0 /\ m \notin 1..Len(E)
  BY <1>3 DEF Started
<1>5. \A i \in 1..Len(G) : i = m \/ (i \in 1..Len(E) /\ G[i] = E[i])
  BY <1>3
<1>6. \A i \in 1..Len(E) : E[i].kind \in {"mark", "funding", "fill", "liquidate"}
  BY <1>2, KindsAre
<1> HIDE DEF m
<1>7. EndsLiquidated(G)
  BY <1>1, <1>3 DEF EndsLiquidated
<1>8. ASSUME NEW i \in 1..Len(G)
      PROVE  /\ G[i].bar = bar
             /\ G[i].kind \in {"mark", "funding", "fill", "liquidate"}
             /\ G[i].kind = "mark" <=> i = 1 /\ bar > 0
             /\ G[i].kind = "funding" => i \in {1, 2} /\ bar \in FundingBars
             /\ G[i].kind = "liquidate" => i = Len(G)
  <2>1. CASE i = m
    BY <1>1, <1>3, <1>4, <2>1
  <2>2. CASE i \in 1..Len(E) /\ G[i] = E[i]
    BY <1>6, <2>2 DEF Started
  <2> QED BY <1>5, <2>1, <2>2
<1>9. ASSUME NEW i \in 1..Len(G), NEW j \in 1..Len(G), G[i].kind = "fill", G[i] = G[j]
      PROVE  i = j
  <2>1. i # m /\ j # m
    BY <1>1, <1>3, <1>9
  <2> QED BY <1>5, <1>9, <2>1 DEF Started
<1>10. Atomic!CompleteBar(G, bar)
  <2>1. Atomic!Liquidates(G)
    BY <1>7 DEF EndsLiquidated, Atomic!Liquidates
  <2> QED BY <1>3, <1>8, <1>9, <2>1 DEF Atomic!CompleteBar
<1> QED BY <1>7, <1>10 DEF G, e
-----------------------------------------------------------------------------
(* The stages of a step *)

\* A session between two steps.
SnapshotIs(s) ==
  s.snapshot.valid =>
    /\ s.snapshot.effects = s.effects
    /\ s.snapshot.margin =
         IF s.liquidated THEN NoCache
         ELSE [valid |-> TRUE, bar |-> s.next_bar - 1, notional |-> Abs(s.position)]

Rest(s) ==
  /\ Typed(s)
  /\ Len(s.effects) = s.next_bar
  /\ Numbered(s) /\ CacheCurrent(s) /\ SnapshotIs(s)
  /\ s.liquidated <=> \E i \in 1..Len(s.effects) : EndsLiquidated(s.effects[i])

LEMMA ClockedMid ==
  ASSUME NEW s, Rest(s)
  PROVE  /\ Mid(Clocked(s), s.effects, << >>, s.next_bar)
         /\ Clocked(s).liquidated = s.liquidated /\ Clocked(s).orders = s.orders
<1> DEFINE u == Clocked(s)
<1>1. Typed(s) /\ Numbered(s) /\ CacheCurrent(s) /\ Len(s.effects) = s.next_bar
  BY DEF Rest
<1>2. DOMAIN s = SessionFields
  BY <1>1, RecordBuilt DEF Typed
<1>3. /\ u.effects = Append(s.effects, << >>) /\ u.version = NextVersion(s.version)
      /\ u.snapshot = NoSnapshot
      /\ u.next_bar = s.next_bar /\ u.position = s.position
      /\ u.liquidated = s.liquidated /\ u.orders = s.orders /\ u.sequence = s.sequence
      /\ u.margin_cache = s.margin_cache
  BY <1>2 DEF Clocked, SessionFields
<1>4. IsRecord(u)
  BY <1>2 DEF Clocked, IsRecord
<1> HIDE DEF u
<1>5. u.version \in 0..Versions - 1
  BY <1>1, <1>3, VersionWraps DEF Typed
<1>6. Numbered(u) /\ CacheCurrent(u)
  BY <1>1, <1>3 DEF Numbered, CacheCurrent
<1>7. Mid(u, s.effects, << >>, s.next_bar)
  BY <1>1, <1>3, <1>4, <1>5, <1>6, NothingYet DEF Typed, Mid
<1> QED BY <1>3, <1>7 DEF u

\* A step of a session that is not liquidated, before anything ends it.
Going(t, h, E, bar) == Mid(t, h, E, bar) /\ ~t.liquidated /\ Started(E, bar)

LEMMA MarkedGoes ==
  ASSUME NEW s, Rest(s), ~s.liquidated, NEW bar, bar = s.next_bar
  PROVE  \E E : Going(Marked(s, bar), s.effects, E, bar) /\ NoFills(E) /\ Len(E) <= 1
<1> DEFINE c == Clocked(s)
           h == s.effects
           e == Effect("mark", bar, 0)
<1>1. Mid(c, h, << >>, bar) /\ ~c.liquidated
  BY ClockedMid
<1>2. bar \in Nat
  BY FeedbackAssumption DEF Rest, Typed
<1>3. CASE bar > 0
  <2>1. e \in Effects
    BY <1>2, EffectIs
  <2>2. /\ Started(Append(<< >>, e), bar) /\ NoFills(Append(<< >>, e))
        /\ Len(Append(<< >>, e)) <= 1
    BY <1>2, <1>3, MarkStarts
  <2>3. Marked(s, bar) = With(c, e)
    BY <1>3 DEF Marked
  <2> HIDE DEF c, h, e
  <2>4. Mid(With(c, e), h, Append(<< >>, e), bar) /\ SameBook(c, With(c, e))
    BY <1>1, <2>1, WithMid, Zenon
  <2>5. ~With(c, e).liquidated
    BY <1>1, <2>4 DEF SameBook
  <2>6. Going(Marked(s, bar), h, Append(<< >>, e), bar)
    BY <2>2, <2>3, <2>4, <2>5 DEF Going
  <2> QED BY <2>2, <2>6 DEF h
<1>4. CASE ~(bar > 0)
  <2>1. bar = 0 /\ Marked(s, bar) = c
    BY <1>2, <1>4 DEF Marked
  <2>2. Going(Marked(s, bar), h, << >>, bar)
    BY <1>1, <2>1, NothingYet DEF Going
  <2>3. NoFills(<< >>) /\ Len(<< >>) <= 1
    BY NothingYet
  <2> QED BY <2>2, <2>3
<1> QED BY <1>3, <1>4

LEMMA FundedGoes ==
  ASSUME NEW t, NEW h, NEW E, NEW bar \in Nat, Going(t, h, E, bar), NoFills(E), Len(E) <= 1
  PROVE  \E G : Going(Funded(t, bar), h, G, bar) /\ NoFills(G) /\ FundedBy(G, bar)
<1> DEFINE e == Effect("funding", bar, 0)
           G == Append(E, e)
<1>1. CASE bar \in FundingBars
  <2>1. e \in Effects /\ Funded(t, bar) = With(t, e)
    BY <1>1, EffectIs DEF Funded
  <2>2. Started(G, bar) /\ NoFills(G) /\ FundedBy(G, bar)
    BY <1>1, FundingGoesOn DEF Going
  <2> HIDE DEF e, G
  <2>3. Mid(t, h, E, bar) /\ ~t.liquidated
    BY DEF Going
  <2>4. Mid(With(t, e), h, G, bar) /\ ~With(t, e).liquidated
    BY <2>1, <2>3, WithMid DEF SameBook, G
  <2>5. Going(Funded(t, bar), h, G, bar)
    BY <2>1, <2>2, <2>4 DEF Going
  <2> QED BY <2>2, <2>5
<1>2. CASE bar \notin FundingBars
  <2>1. Funded(t, bar) = t
    BY <1>2 DEF Funded
  <2>2. FundedBy(E, bar)
    BY <1>2 DEF FundedBy
  <2> QED BY <2>1, <2>2
<1> QED BY <1>1, <1>2

LEMMA MarginReadGoes ==
  ASSUME NEW t, NEW h, NEW E, NEW bar \in Nat, Going(t, h, E, bar)
  PROVE  Going(MarginRead(t, bar), h, E, bar) /\ MarginRead(t, bar).orders = t.orders
<1>1. Mid(t, h, E, bar) /\ ~t.liquidated /\ Started(E, bar)
  BY DEF Going
<1>2. Mid(MarginRead(t, bar), h, E, bar) /\ SameBook(t, MarginRead(t, bar))
  BY <1>1, MarginReadMid
<1> QED BY <1>1, <1>2 DEF Going, SameBook
\* Orders placed are numbered from the session's counter on.
LEMMA PlacedMid ==
  ASSUME NEW t, NEW h, NEW E, NEW bar \in Nat, Mid(t, h, E, bar),
         NEW sides \in Seq({-1, 1})
  PROVE  /\ Mid(Placed(t, sides), h, E, bar)
         /\ Placed(t, sides).liquidated = t.liquidated
<1> DEFINE a == Len(sides)
           b == MaxOrders - t.sequence
           room == Min({a, b})
           new(i) == [sequence |-> t.sequence + i, side |-> sides[i]]
           N == {new(i) : i \in 1..room}
           u == [t EXCEPT !.orders = @ \cup N, !.sequence = @ + room]
<1>1. DOMAIN t = SessionFields
  BY RecordBuilt DEF Mid
<1>2. a \in Nat /\ b \in Nat /\ t.sequence \in Nat /\ t.sequence + b = MaxOrders
  BY FeedbackAssumption DEF Mid
<1>3. room \in Nat /\ room <= a /\ room <= b
  <2> HIDE DEF a, b
  <2>1. CASE a <= b
    <3>1. a \in {a, b} /\ \A y \in {a, b} : a <= y
      BY <1>2, <2>1
    <3>2. room \in {a, b} /\ \A y \in {a, b} : room <= y
      BY <3>1 DEF Min
    <3> QED BY <1>2, <3>2
  <2>2. CASE b <= a
    <3>1. b \in {a, b} /\ \A y \in {a, b} : b <= y
      BY <1>2, <2>2
    <3>2. room \in {a, b} /\ \A y \in {a, b} : room <= y
      BY <3>1 DEF Min
    <3> QED BY <1>2, <3>2
  <2> QED BY <1>2, <2>1, <2>2
<1>4. Placed(t, sides) = u
  BY DEF Placed
<1> HIDE DEF room
<1>5. \A i \in 1..room : new(i) \in Orders /\ new(i).sequence = t.sequence + i
  <2>1. \A i \in 1..room : sides[i] \in {-1, 1} /\ t.sequence + i \in 1..MaxOrders
    BY <1>2, <1>3
  <2> QED BY <2>1 DEF Orders
<1>6. \A i \in 1..room : t.sequence + i <= t.sequence + room /\ t.sequence + i > t.sequence
  BY <1>2, <1>3
<1>7. IsFiniteSet(N)
  <2>1. IsFiniteSet(1..room)
    BY <1>3, FS_Interval
  <2> DEFINE f == [i \in 1..room |-> new(i)]
  <2>2. f \in Surjection(1..room, N)
    BY DEF Surjection
  <2> QED BY <2>1, <2>2, FS_Surjection
<1>8. /\ u.orders = t.orders \cup N /\ u.sequence = t.sequence + room
      /\ u.effects = t.effects /\ u.version = t.version
      /\ u.next_bar = t.next_bar /\ u.position = t.position
      /\ u.liquidated = t.liquidated
      /\ u.margin_cache = t.margin_cache /\ u.snapshot = t.snapshot
  BY <1>1 DEF SessionFields
<1>9. IsRecord(u)
  BY <1>1 DEF IsRecord
<1> HIDE DEF u
<1>10. \A p \in N : \E i \in 1..room : p = new(i)
  OBVIOUS
<1> HIDE DEF N, a, b
<1>11. IsFiniteSet(t.orders \cup N)
  BY <1>7, FS_Union DEF Mid, Numbered
<1>12. \A p \in N : /\ p \in Orders /\ p.sequence <= t.sequence + room
                    /\ p.sequence > t.sequence
  BY <1>5, <1>6, <1>10
<1>13. \A p, q \in N : p.sequence = q.sequence => p = q
  <2> SUFFICES ASSUME NEW p \in N, NEW q \in N, p.sequence = q.sequence
               PROVE  p = q
    OBVIOUS
  <2>1. PICK i \in 1..room : p = new(i)
    BY <1>10
  <2>2. PICK j \in 1..room : q = new(j)
    BY <1>10
  <2>3. t.sequence + i = t.sequence + j
    BY <1>5, <2>1, <2>2
  <2>4. i = j
    BY <1>2, <2>3
  <2> QED BY <2>1, <2>2, <2>4
<1>14. /\ \A p \in t.orders : p.sequence <= t.sequence /\ p.sequence \in Nat
       /\ \A p, q \in t.orders : p.sequence = q.sequence => p = q
  BY DEF Mid, Numbered, Orders
<1>15. Numbered(u)
  <2>1. \A p \in u.orders : p.sequence <= u.sequence
    BY <1>2, <1>3, <1>8, <1>12, <1>14
  <2>2. ASSUME NEW p \in u.orders, NEW q \in u.orders, p.sequence = q.sequence
        PROVE  p = q
    <3>1. CASE p \in t.orders /\ q \in t.orders
      BY <1>14, <2>2, <3>1
    <3>2. CASE p \in N /\ q \in N
      BY <1>13, <2>2, <3>2
    <3>3. ASSUME NEW x \in t.orders, NEW y \in N PROVE x.sequence # y.sequence
      <4>1. x.sequence \in Nat /\ x.sequence <= t.sequence /\ y.sequence > t.sequence
        BY <1>12, <1>14
      <4>2. y.sequence \in Nat
        BY <1>12 DEF Orders
      <4> QED BY <1>2, <4>1, <4>2
    <3> QED BY <1>8, <2>2, <3>1, <3>2, <3>3
  <2> QED BY <1>8, <1>11, <2>1, <2>2 DEF Numbered
<1>16. u.sequence \in 0..MaxOrders
  BY <1>2, <1>3, <1>8, FeedbackAssumption
<1>17. u.orders \in SUBSET Orders
  BY <1>8, <1>12 DEF Mid
<1>18. CacheCurrent(u)
  BY <1>8 DEF Mid, CacheCurrent
<1>19. Mid(u, h, E, bar)
  BY <1>8, <1>9, <1>15, <1>16, <1>17, <1>18 DEF Mid
<1> QED BY <1>4, <1>8, <1>19

\* A liquidation flattens the position and drops the cached margin.
LEMMA LiquidatedMid ==
  ASSUME NEW t, NEW h, NEW E, NEW bar \in Nat, Mid(t, h, E, bar)
  PROVE  /\ Mid(Liquidated(t, bar), h, Append(E, Effect("liquidate", bar, 0)), bar)
         /\ Liquidated(t, bar).liquidated
<1> DEFINE e == Effect("liquidate", bar, 0)
           w == With(t, e)
           u == [w EXCEPT !.liquidated = TRUE, !.position = 0,
                          !.margin_cache.valid = FALSE, !.snapshot = NoSnapshot]
<1>1. e \in Effects
  BY EffectIs
<1>2. Liquidated(t, bar) = u
  BY DEF Liquidated
<1> HIDE DEF e
<1>3. Mid(w, h, Append(E, e), bar)
  BY <1>1, WithMid
<1> HIDE DEF w
<1>4. DOMAIN w = SessionFields
  BY <1>3, RecordBuilt DEF Mid
<1>5. /\ u.margin_cache = [w.margin_cache EXCEPT !.valid = FALSE]
      /\ u.effects = w.effects /\ u.version = w.version
      /\ u.next_bar = w.next_bar /\ u.position = 0
      /\ u.liquidated = TRUE /\ u.orders = w.orders /\ u.sequence = w.sequence
      /\ u.snapshot = NoSnapshot
  BY <1>4 DEF SessionFields
<1>6. IsRecord(u)
  BY <1>4 DEF IsRecord
<1> HIDE DEF u
<1>7. u.margin_cache \in Margins /\ u.margin_cache.valid = FALSE
  <2>1. ASSUME NEW c \in Margins, NEW v \in BOOLEAN
        PROVE  [c EXCEPT !.valid = v] \in Margins /\ [c EXCEPT !.valid = v].valid = v
    BY DEF Margins
  <2>2. w.margin_cache \in Margins /\ FALSE \in BOOLEAN
    BY <1>3 DEF Mid
  <2>3. /\ [w.margin_cache EXCEPT !.valid = FALSE] \in Margins
        /\ [w.margin_cache EXCEPT !.valid = FALSE].valid = FALSE
    BY <2>1, <2>2, Zenon
  <2> QED BY <1>5, <2>3
<1>8. CacheCurrent(u) /\ Numbered(u)
  BY <1>3, <1>5, <1>7 DEF CacheCurrent, Mid, Numbered
<1>9. u.position \in Int /\ u.liquidated \in BOOLEAN
  <2>1. 0 \in Int /\ TRUE \in BOOLEAN
    OBVIOUS
  <2> QED BY <1>5, <2>1, Zenon
<1>10. Mid(u, h, Append(E, e), bar)
  <2>1. /\ u.effects = w.effects /\ u.version = w.version
        /\ u.next_bar = w.next_bar /\ u.orders = w.orders /\ u.sequence = w.sequence
        /\ u.snapshot = NoSnapshot /\ u.margin_cache \in Margins
    BY <1>5, <1>7
  <2> QED BY <1>3, <1>6, <1>8, <1>9, <2>1 DEF Mid
<1> QED BY <1>2, <1>5, <1>10 DEF e
-----------------------------------------------------------------------------
(* The fills of a step *)

LEMMA AllFilledIsFold ==
  ASSUME NEW s, NEW bar, NEW F, NEW n \in Nat, DOMAIN InOrder(F) = 1..n
  PROVE  AllFilled(s, F, bar) = Fills!After(bar, s, InOrder(F), n)
<1> DEFINE q == InOrder(F)
<1> HIDE DEF q
<1>1. AllFilled(s, F, bar) = Fills!Iteration(bar, s, q)[DOMAIN q]
  BY DEF AllFilled, FoldLeft, MapThenFoldSet, Max, FilledAt, Fills!Iteration, Fills!Highest, q
<1> QED BY <1>1 DEF Fills!After, q

\* After k fills: those of the first k orders in sequence order.
LEMMA AllFilledGoes ==
  ASSUME NEW t, NEW h, NEW E, NEW bar \in Nat, Going(t, h, E, bar), FundedBy(E, bar),
         NoFills(E), NEW F \in SUBSET t.orders
  PROVE  \E G : Going(AllFilled(t, F, bar), h, G, bar) /\ FundedBy(G, bar)
<1> DEFINE q == InOrder(F)
           n == Cardinality(F)
           A(k) == Fills!After(bar, t, q, k)
           Good(u, G, k) ==
             /\ Going(u, h, G, bar) /\ FundedBy(G, bar) /\ Unfilled(G, u.orders)
             /\ \A j \in 1..n : j > k => q[j] \in u.orders
<1>1. /\ Mid(t, h, E, bar) /\ Numbered(t) /\ IsFiniteSet(t.orders)
      /\ t.orders \in SUBSET Orders
  BY DEF Going, Mid, Numbered
<1>2. /\ IsFiniteSet(F) /\ \A p \in F : p.sequence \in Int
      /\ \A p, r \in F : p.sequence = r.sequence => p = r
  <2>1. IsFiniteSet(F)
    BY <1>1, FS_Subset
  <2> QED BY <1>1, <2>1 DEF Numbered, Orders
<1>3. /\ n \in Nat /\ DOMAIN q = 1..n
      /\ \A i \in 1..n : q[i] \in F
      /\ \A i, j \in 1..n : q[i] = q[j] => i = j
  BY <1>2, InOrderEnumerates
<1> HIDE DEF q, n
<1>4. A(0) = t /\ \A k \in 0..(n - 1) : A(k + 1) = Filled(A(k), q[k + 1], bar)
  BY <1>3, Fills!AfterOne DEF Fills!Steps, FilledAt
<1>5. Good(t, E, 0)
  <2>1. Unfilled(E, t.orders)
    BY DEF Unfilled, NoFills
  <2> QED BY <1>3, <2>1
<1>6. ASSUME NEW k \in 0..(n - 1), NEW u, NEW G, Good(u, G, k)
      PROVE  \E K : Good(Filled(u, q[k + 1], bar), K, k + 1)
  <2> DEFINE o == q[k + 1]
             v == Filled(u, o, bar)
             K == Append(G, Effect("fill", bar, o.sequence))
  <2>1. k + 1 \in 1..n /\ k + 1 > k
    BY <1>3
  <2>2. o \in u.orders
    BY <1>6, <2>1
  <2>3. Mid(u, h, G, bar) /\ ~u.liquidated /\ Started(G, bar)
    BY <1>6 DEF Going
  <2>4. o \in Orders /\ \A p, r \in u.orders : p.sequence = r.sequence => p = r
    BY <2>2, <2>3 DEF Mid, Numbered
  <2>5. o.sequence \in Nat
    BY <2>4 DEF Orders
  <2>6. FundedBy(G, bar) /\ Unfilled(G, u.orders)
    BY <1>6
  <2>7. \A j \in 1..n : j > k + 1 => q[j] \in u.orders \ {o}
    BY <1>3, <1>6, <2>1
  <2> HIDE DEF o
  <2>8. /\ Mid(v, h, K, bar) /\ v.orders = u.orders \ {o} /\ v.liquidated = u.liquidated
    BY <2>3, <2>4, FilledMid
  <2>9. Started(K, bar) /\ FundedBy(K, bar) /\ Unfilled(K, u.orders \ {o})
    BY <2>2, <2>3, <2>4, <2>5, <2>6, FillGoesOn
  <2> HIDE DEF v, K
  <2>10. Going(v, h, K, bar)
    BY <2>3, <2>8, <2>9 DEF Going
  <2>11. Good(v, K, k + 1)
    BY <2>7, <2>8, <2>9, <2>10
  <2> HIDE DEF Good
  <2> QED BY <2>11 DEF v, o
<1> HIDE DEF A, Good
<1> DEFINE S == {k \in 0..n : \E G : Good(A(k), G, k)}
<1>7. 0 \in S
  BY <1>3, <1>4, <1>5
<1>8. ASSUME NEW k \in 0..(n - 1), k \in S PROVE k + 1 \in S
  <2>1. PICK G : Good(A(k), G, k)
    BY <1>8
  <2>2. A(k + 1) = Filled(A(k), q[k + 1], bar) /\ k + 1 \in 0..n
    BY <1>3, <1>4
  <2>3. \E K : Good(Filled(A(k), q[k + 1], bar), K, k + 1)
    BY <1>6, <2>1
  <2> QED BY <2>2, <2>3
<1> HIDE DEF S
<1>9. 0..n \subseteq S
  BY <1>3, <1>7, <1>8, InductTo
<1>10. n \in 0..n
  BY <1>3
<1>11. PICK G : Good(A(n), G, n)
  BY <1>9, <1>10 DEF S
<1>12. AllFilled(t, F, bar) = A(n)
  BY <1>3, AllFilledIsFold DEF A, q
<1> QED BY <1>11, <1>12 DEF Good
-----------------------------------------------------------------------------
(* A completed step *)

\* The session is liquidated by this bar, or was before it.
LiquidatedBy(s, t, E) == t.liquidated <=> s.liquidated \/ EndsLiquidated(E)

LEMMA CompletedRest ==
  ASSUME NEW s, Rest(s), NEW t, NEW E, NEW bar, bar = s.next_bar, bar < Bars,
         Mid(t, s.effects, E, bar), LiquidatedBy(s, t, E)
  PROVE  /\ Rest(Completed(t, bar)) /\ Completed(t, bar).next_bar = bar + 1
         /\ Completed(t, bar).effects = Append(s.effects, E)
<1> DEFINE u == Completed(t, bar)
           h == s.effects
           g == Append(h, E)
<1>1. DOMAIN t = SessionFields
  BY RecordBuilt DEF Mid
<1>2. /\ u.next_bar = bar + 1
      /\ u.effects = t.effects /\ u.version = t.version
      /\ u.position = t.position /\ u.orders = t.orders /\ u.sequence = t.sequence
      /\ u.liquidated = t.liquidated
      /\ u.margin_cache = t.margin_cache /\ u.snapshot = t.snapshot
  BY <1>1 DEF Completed, SessionFields
<1>3. IsRecord(u)
  BY <1>1 DEF Completed, IsRecord
<1> HIDE DEF u
<1>4. bar \in Nat /\ bar + 1 \in 0..Bars /\ h \in Seq(Seq(Effects)) /\ Len(h) = bar
  BY FeedbackAssumption DEF Rest, Typed
<1>5. E \in Seq(Effects) /\ u.effects = g
  BY <1>2 DEF Mid
<1>6. /\ g \in Seq(Seq(Effects)) /\ Len(g) = bar + 1 /\ g[bar + 1] = E
      /\ \A i \in 1..bar : g[i] = h[i]
      /\ 1..(bar + 1) = (1..bar) \cup {bar + 1}
  BY <1>4, <1>5, AppendElements
<1>7. Numbered(u) /\ CacheCurrent(u)
  BY <1>2 DEF Mid, Numbered, CacheCurrent
<1>8. NoSnapshot \in Snapshots /\ NoSnapshot.valid = FALSE
  <2>1. NoCache \in Margins
    BY DEF NoCache, Margins
  <2>2. << >> \in Seq(Seq(Effects)) /\ 0 \in 0..Versions - 1
    BY FeedbackAssumption
  <2> HIDE DEF NoCache
  <2> QED BY <2>1, <2>2 DEF NoSnapshot, Snapshots
<1>9. Typed(u)
  BY <1>2, <1>3, <1>4, <1>5, <1>6, <1>8 DEF Typed, Mid
<1>10. SnapshotIs(u)
  <2>1. u.snapshot = NoSnapshot
    BY <1>2 DEF Mid
  <2> QED BY <1>8, <2>1 DEF SnapshotIs
<1>11. u.liquidated <=> \E i \in 1..Len(u.effects) : EndsLiquidated(u.effects[i])
  <2>1. s.liquidated <=> \E i \in 1..bar : EndsLiquidated(h[i])
    BY <1>4 DEF Rest
  <2> HIDE DEF g, h
  <2>2. (\E i \in 1..(bar + 1) : EndsLiquidated(g[i]))
          <=> (\E i \in 1..bar : EndsLiquidated(h[i])) \/ EndsLiquidated(E)
    BY <1>6
  <2> QED BY <1>2, <1>5, <1>6, <2>1, <2>2 DEF LiquidatedBy
<1>12. Rest(u)
  <2>1. Len(u.effects) = u.next_bar
    BY <1>2, <1>5, <1>6
  <2> QED BY <1>7, <1>9, <1>10, <1>11, <2>1 DEF Rest
<1> QED BY <1>2, <1>5, <1>12 DEF u

LEMMA SnapshotRest ==
  ASSUME NEW u, Rest(u), NEW bar \in Nat, u.next_bar = bar + 1
  PROVE  /\ Rest(Snapshot(u, bar)) /\ Snapshot(u, bar).next_bar = u.next_bar
         /\ Snapshot(u, bar).effects = u.effects
<1> DEFINE w == IF u.liquidated THEN u ELSE MarginRead(u, bar)
           m == IF w.liquidated THEN NoCache ELSE w.margin_cache
           x == [valid |-> TRUE, bar |-> bar, version |-> w.version,
                 effects |-> w.effects, margin |-> m]
           v == [w EXCEPT !.snapshot = x]
<1>1. Snapshot(u, bar) = v
  BY DEF Snapshot
<1>2. /\ Typed(u) /\ IsRecord(u) /\ u.margin_cache \in Margins /\ u.position \in Int
      /\ CacheCurrent(u)
  BY DEF Rest, Typed
<1>3. /\ IsRecord(w) /\ SameBook(u, w) /\ w.next_bar = u.next_bar
      /\ w.effects = u.effects /\ w.version = u.version
      /\ w.margin_cache \in Margins /\ CacheCurrent(w)
      /\ ~w.liquidated => ReadAt(w, bar)
  <2>1. CASE u.liquidated
    <3>1. w = u
      BY <2>1
    <3> HIDE DEF w
    <3> QED BY <1>2, <2>1, <3>1 DEF SameBook
  <2>2. CASE ~u.liquidated
    <3>1. w = MarginRead(u, bar)
      BY <2>2
    <3> HIDE DEF w
    <3> QED BY <1>2, <3>1, MarginReadFields
  <2> QED BY <2>1, <2>2
<1> HIDE DEF w
<1>4. DOMAIN w = SessionFields
  BY <1>3, RecordBuilt
<1>5. /\ v.snapshot = x /\ v.next_bar = w.next_bar
      /\ v.effects = w.effects /\ v.version = w.version
      /\ v.position = w.position /\ v.orders = w.orders /\ v.sequence = w.sequence
      /\ v.liquidated = w.liquidated /\ v.margin_cache = w.margin_cache
  BY <1>4 DEF SessionFields
<1>6. IsRecord(v)
  BY <1>4 DEF IsRecord
<1> HIDE DEF v
<1>7. m \in Margins
  <2>1. NoCache \in Margins
    BY DEF NoCache, Margins
  <2> QED BY <1>3, <2>1
<1>8. m = IF v.liquidated THEN NoCache
          ELSE [valid |-> TRUE, bar |-> v.next_bar - 1, notional |-> Abs(v.position)]
  <2>1. v.next_bar - 1 = bar
    BY <1>3, <1>5
  <2>2. CASE w.liquidated
    BY <1>5, <2>2
  <2>3. CASE ~w.liquidated
    <3>1. w.margin_cache = [valid |-> TRUE, bar |-> bar, notional |-> Abs(w.position)]
      BY <1>3, <2>3 DEF ReadAt
    <3>2. m = w.margin_cache
      BY <2>3
    <3> QED BY <1>5, <2>1, <2>3, <3>1, <3>2
  <2> QED BY <2>2, <2>3
<1> HIDE DEF m
<1>9. x.effects = w.effects /\ x.margin = m
  OBVIOUS
<1>10. x \in Snapshots
  <2>1. w.version \in 0..Versions - 1 /\ w.effects \in Seq(Seq(Effects))
    BY <1>2, <1>3 DEF Typed
  <2> QED BY <1>7, <2>1 DEF Snapshots
<1> HIDE DEF x
<1>11. SnapshotIs(v)
  BY <1>5, <1>8, <1>9 DEF SnapshotIs
<1>12. Typed(v)
  BY <1>2, <1>3, <1>5, <1>6, <1>10 DEF Typed, SameBook
<1>13. Numbered(v) /\ CacheCurrent(v)
  BY <1>3, <1>5 DEF Rest, Numbered, CacheCurrent, SameBook
<1>14. /\ Len(v.effects) = v.next_bar
       /\ v.liquidated <=> \E i \in 1..Len(v.effects) : EndsLiquidated(v.effects[i])
  BY <1>3, <1>5 DEF Rest, SameBook
<1> QED BY <1>1, <1>3, <1>5, <1>11, <1>12, <1>13, <1>14 DEF Rest

\* Where an outcome comes from.
Ready(s, bar, sides) == Placed(MarginRead(Funded(Marked(s, bar), bar), bar), sides)

Traded(s, bar, sides, F) == MarginRead(AllFilled(Ready(s, bar, sides), F, bar), bar)

EndsEarly(s, bar, out) ==
  \E t \in {Marked(s, bar), MarginRead(Funded(Marked(s, bar), bar), bar)} :
    out = Ok(Completed(Liquidated(t, bar), bar))

Fails(s, bar, sides, out) ==
  \/ out = Err(Ready(s, bar, sides))
  \/ \E F \in SUBSET Ready(s, bar, sides).orders :
       out = Err(AllFilled(Ready(s, bar, sides), F, bar))

EndsTraded(s, bar, sides, out) ==
  \E F \in SUBSET Ready(s, bar, sides).orders :
    \E t \in {Traded(s, bar, sides, F), Liquidated(Traded(s, bar, sides, F), bar)} :
      out = Ok(Snapshot(Completed(t, bar), bar))

LEMMA OutcomeIs ==
  ASSUME NEW s, NEW bar, NEW sides, NEW out \in Outcomes(s, bar, sides)
  PROVE  IF s.liquidated THEN out = Ok(Completed(Clocked(s), bar))
         ELSE \/ EndsEarly(s, bar, out)
              \/ Fails(s, bar, sides, out)
              \/ EndsTraded(s, bar, sides, out)
<1> DEFINE marked == Marked(s, bar)
           funded == MarginRead(Funded(marked, bar), bar)
           ready  == Ready(s, bar, sides)
           All(F) == AllFilled(ready, F, bar)
           exposed == {t \in {marked} : t.position # 0}
                        \cup {t \in {funded} : t.margin_cache.notional > 0}
           failed == {ready} \cup {All(F) : F \in SUBSET ready.orders \ {ready.orders}}
           traded == {MarginRead(All(F), bar) : F \in SUBSET ready.orders}
           ended  == traded \cup {Liquidated(t, bar) :
                                    t \in {u \in traded : u.margin_cache.notional > 0}}
<1>1. CASE s.liquidated
  BY <1>1 DEF Outcomes
<1>2. CASE ~s.liquidated
  <2>1. out \in {Ok(Completed(Liquidated(t, bar), bar)) : t \in exposed}
                  \cup {Err(t) : t \in failed}
                  \cup {Ok(Snapshot(Completed(t, bar), bar)) : t \in ended}
    BY <1>2 DEF Outcomes, Ready
  <2>2. ASSUME NEW t \in exposed, out = Ok(Completed(Liquidated(t, bar), bar))
        PROVE  EndsEarly(s, bar, out)
    BY <2>2 DEF EndsEarly
  <2>3. ASSUME NEW t \in failed, out = Err(t)
        PROVE  Fails(s, bar, sides, out)
    BY <2>3 DEF Fails
  <2>4. ASSUME NEW t \in ended, out = Ok(Snapshot(Completed(t, bar), bar))
        PROVE  EndsTraded(s, bar, sides, out)
    <3>1. \E F \in SUBSET ready.orders :
            t = MarginRead(All(F), bar) \/ t = Liquidated(MarginRead(All(F), bar), bar)
      OBVIOUS
    <3> QED BY <2>4, <3>1 DEF EndsTraded, Traded
  <2> HIDE DEF exposed, failed, ended
  <2> QED BY <1>2, <2>1, <2>2, <2>3, <2>4
<1> QED BY <1>1, <1>2
\* What a step does: it adds the effects of one complete execution of the bar,
\* or none at all to a session that is liquidated.
Stepped(s, u, bar) ==
  /\ Rest(u) /\ u.next_bar = bar + 1
  /\ \E E \in Seq(Effects) :
       /\ u.effects = Append(s.effects, E)
       /\ IF s.liquidated THEN E = << >> ELSE Atomic!CompleteBar(E, bar)

LEMMA TradedBar ==
  ASSUME NEW s, Rest(s), ~s.liquidated, NEW bar, bar = s.next_bar, bar < Bars,
         NEW t, NEW E, Going(t, s.effects, E, bar), FundedBy(E, bar)
  PROVE  Stepped(s, Completed(t, bar), bar)
<1>1. bar \in Nat
  BY DEF Rest, Typed
<1>2. Mid(t, s.effects, E, bar) /\ ~t.liquidated /\ Started(E, bar) /\ E \in Seq(Effects)
  BY DEF Going, Started
<1>3. Atomic!CompleteBar(E, bar) /\ ~EndsLiquidated(E)
  BY <1>1, <1>2, FundedIsComplete
<1>4. LiquidatedBy(s, t, E)
  BY <1>2, <1>3 DEF LiquidatedBy
<1>5. /\ Rest(Completed(t, bar)) /\ Completed(t, bar).next_bar = bar + 1
      /\ Completed(t, bar).effects = Append(s.effects, E)
  BY <1>2, <1>4, CompletedRest
<1> QED BY <1>2, <1>3, <1>5 DEF Stepped

LEMMA LiquidatedBar ==
  ASSUME NEW s, Rest(s), ~s.liquidated, NEW bar, bar = s.next_bar, bar < Bars,
         NEW t, NEW E, Going(t, s.effects, E, bar)
  PROVE  Stepped(s, Completed(Liquidated(t, bar), bar), bar)
<1> DEFINE e == Effect("liquidate", bar, 0)
           G == Append(E, e)
           w == Liquidated(t, bar)
<1>1. bar \in Nat
  BY DEF Rest, Typed
<1>2. Mid(t, s.effects, E, bar) /\ Started(E, bar) /\ E \in Seq(Effects)
  BY DEF Going, Started
<1>3. Atomic!CompleteBar(G, bar) /\ EndsLiquidated(G)
  BY <1>1, <1>2, LiquidationCompletes
<1>4. G \in Seq(Effects)
  <2>1. e \in Effects
    BY <1>1, EffectIs
  <2> HIDE DEF e
  <2> QED BY <1>2, <2>1
<1>5. Mid(w, s.effects, G, bar) /\ w.liquidated
  BY <1>1, <1>2, LiquidatedMid
<1> HIDE DEF w, G, e
<1>6. LiquidatedBy(s, w, G)
  BY <1>3, <1>5 DEF LiquidatedBy
<1>7. /\ Rest(Completed(w, bar)) /\ Completed(w, bar).next_bar = bar + 1
      /\ Completed(w, bar).effects = Append(s.effects, G)
  BY <1>5, <1>6, CompletedRest
<1>8. Stepped(s, Completed(w, bar), bar)
  BY <1>3, <1>4, <1>7 DEF Stepped
<1> QED BY <1>8 DEF w

LEMMA IdleBar ==
  ASSUME NEW s, Rest(s), s.liquidated, NEW bar, bar = s.next_bar, bar < Bars
  PROVE  Stepped(s, Completed(Clocked(s), bar), bar)
<1> DEFINE t == Clocked(s)
           E == << >>
<1>0. Mid(t, s.effects, E, bar)
  BY ClockedMid
<1>1. t.liquidated = s.liquidated
  BY ClockedMid
<1>2. ~EndsLiquidated(E) /\ E \in Seq(Effects) /\ E = << >>
  BY DEF EndsLiquidated
<1> HIDE DEF t, E
<1>3. LiquidatedBy(s, t, E)
  BY <1>1, <1>2 DEF LiquidatedBy
<1>4. /\ Rest(Completed(t, bar)) /\ Completed(t, bar).next_bar = bar + 1
      /\ Completed(t, bar).effects = Append(s.effects, E)
  BY <1>0, <1>3, CompletedRest
<1>5. Stepped(s, Completed(t, bar), bar)
  BY <1>2, <1>4 DEF Stepped
<1> QED BY <1>5 DEF t

LEMMA SnapshotBar ==
  ASSUME NEW s, NEW u, NEW bar \in Nat, Stepped(s, u, bar)
  PROVE  Stepped(s, Snapshot(u, bar), bar)
<1>1. Rest(u) /\ u.next_bar = bar + 1
  BY DEF Stepped
<1>2. /\ Rest(Snapshot(u, bar)) /\ Snapshot(u, bar).next_bar = u.next_bar
      /\ Snapshot(u, bar).effects = u.effects
  BY <1>1, SnapshotRest
<1> QED BY <1>2 DEF Stepped

LEMMA OkIs ==
  ASSUME NEW s
  PROVE  /\ Ok(s).ok /\ Ok(s).session = s
         /\ ~Err(s).ok /\ Err(s).session = s
BY DEF Ok, Err

\* Every way a step can end.
LEMMA StepResult ==
  ASSUME NEW s, Rest(s), NEW bar, bar = s.next_bar, bar < Bars,
         NEW sides \in Seq({-1, 1}), NEW out \in Outcomes(s, bar, sides)
  PROVE  /\ out.ok => Stepped(s, out.session, bar)
         /\ ~out.ok => IsRecord(out.session)
<1>1. bar \in Nat
  BY DEF Rest, Typed
<1>2. CASE s.liquidated
  <2>1. out = Ok(Completed(Clocked(s), bar))
    BY <1>2, OutcomeIs
  <2>2. Stepped(s, Completed(Clocked(s), bar), bar)
    BY <1>2, IdleBar
  <2> QED BY <2>1, <2>2, OkIs
<1>3. CASE ~s.liquidated
  <2> DEFINE h == s.effects
             marked == Marked(s, bar)
             funded == MarginRead(Funded(marked, bar), bar)
             ready == Ready(s, bar, sides)
  <2>1. PICK E : Going(marked, h, E, bar) /\ NoFills(E) /\ Len(E) <= 1
    BY <1>3, MarkedGoes
  <2>2. \E G : Going(Funded(marked, bar), h, G, bar) /\ NoFills(G) /\ FundedBy(G, bar)
    <3> HIDE DEF marked, h
    <3> QED BY <1>1, <2>1, FundedGoes
  <2>3. PICK G : Going(funded, h, G, bar) /\ NoFills(G) /\ FundedBy(G, bar)
    <3>1. PICK G : Going(Funded(marked, bar), h, G, bar) /\ NoFills(G) /\ FundedBy(G, bar)
      BY <2>2
    <3>2. Going(funded, h, G, bar)
      BY <1>1, <3>1, MarginReadGoes
    <3> QED BY <3>1, <3>2
  <2>4. Going(ready, h, G, bar)
    <3>1. ready = Placed(funded, sides)
      BY DEF Ready
    <3> HIDE DEF funded, ready, h
    <3>2. Mid(funded, h, G, bar) /\ ~funded.liquidated /\ Started(G, bar)
      BY <2>3 DEF Going
    <3>3. Mid(ready, h, G, bar) /\ ready.liquidated = funded.liquidated
      BY <1>1, <3>1, <3>2, PlacedMid
    <3> QED BY <3>2, <3>3 DEF Going
  <2>5. ASSUME NEW F \in SUBSET ready.orders
        PROVE  \E K : /\ Going(AllFilled(ready, F, bar), h, K, bar)
                      /\ Going(MarginRead(AllFilled(ready, F, bar), bar), h, K, bar)
                      /\ FundedBy(K, bar)
    <3> HIDE DEF ready, h
    <3>1. PICK K : Going(AllFilled(ready, F, bar), h, K, bar) /\ FundedBy(K, bar)
      BY <1>1, <2>3, <2>4, AllFilledGoes
    <3>2. Going(MarginRead(AllFilled(ready, F, bar), bar), h, K, bar)
      BY <1>1, <3>1, MarginReadGoes
    <3> QED BY <3>1, <3>2
  <2>6. CASE EndsEarly(s, bar, out)
    <3>1. PICK t \in {marked, funded} : out = Ok(Completed(Liquidated(t, bar), bar))
      BY <2>6 DEF EndsEarly
    <3>2. \E K : Going(t, h, K, bar)
      BY <2>1, <2>3
    <3>3. Stepped(s, Completed(Liquidated(t, bar), bar), bar)
      BY <1>3, <3>2, LiquidatedBar
    <3> QED BY <3>1, <3>3, OkIs
  <2>7. CASE Fails(s, bar, sides, out)
    <3>1. PICK t : /\ out = Err(t)
                   /\ t = ready \/ \E F \in SUBSET ready.orders : t = AllFilled(ready, F, bar)
      BY <2>7 DEF Fails
    <3>2. \E K : Going(t, h, K, bar)
      BY <2>4, <2>5, <3>1
    <3>3. IsRecord(t)
      BY <3>2 DEF Going, Mid
    <3> QED BY <3>1, <3>3, OkIs
  <2>8. CASE EndsTraded(s, bar, sides, out)
    <3>1. PICK F \in SUBSET ready.orders :
            \E t \in {Traded(s, bar, sides, F), Liquidated(Traded(s, bar, sides, F), bar)} :
              out = Ok(Snapshot(Completed(t, bar), bar))
      BY <2>8 DEF EndsTraded
    <3> DEFINE traded == Traded(s, bar, sides, F)
    <3>2. PICK K : Going(traded, h, K, bar) /\ FundedBy(K, bar)
      BY <2>5 DEF Traded
    <3>3. PICK t \in {traded, Liquidated(traded, bar)} :
            out = Ok(Snapshot(Completed(t, bar), bar))
      BY <3>1
    <3> HIDE DEF traded
    <3>4. Stepped(s, Completed(t, bar), bar)
      <4>1. Stepped(s, Completed(traded, bar), bar)
        BY <1>3, <3>2, TradedBar
      <4>2. Stepped(s, Completed(Liquidated(traded, bar), bar), bar)
        BY <1>3, <3>2, LiquidatedBar
      <4> QED BY <4>1, <4>2
    <3>5. Stepped(s, Snapshot(Completed(t, bar), bar), bar)
      BY <1>1, <3>4, SnapshotBar
    <3> QED BY <3>3, <3>5, OkIs
  <2> QED BY <1>3, <2>6, <2>7, <2>8, OutcomeIs
<1> QED BY <1>2, <1>3
-----------------------------------------------------------------------------
(* The invariant *)

\* An open bar is the next one of its checkpoint, and the session is either at
\* that checkpoint or one step past it.
Opened ==
  /\ transaction = [bar |-> begun.next_bar, checkpoint |-> begun]
  /\ begun.next_bar < Bars
  /\ session = begun \/ Stepped(begun, session, begun.next_bar)

IInv ==
  /\ Rest(session) /\ Rest(begun)
  /\ closed \in BOOLEAN
  /\ transaction = NoTransaction \/ Opened

LEMMA FreshRest ==
  /\ Rest(Fresh)
  /\ \A v \in 0..Versions - 1 : Rest([Fresh EXCEPT !.version = v])
  /\ Fresh.effects = << >>
  /\ \A v : [Fresh EXCEPT !.version = v].effects = << >>
<1> DEFINE zero == 0
           none == << >>
           no == FALSE
           empty == {}
           F(v) == Build(zero, none, zero, no, empty, zero, NoCache, NoSnapshot, v)
<1>0. /\ Fresh = F(zero)
      /\ zero = 0 /\ none = << >> /\ no = FALSE /\ empty = {}
  BY Zenon DEF Fresh, Build
<1> HIDE DEF zero, none, no, empty
<1>1. \A v : [F(zero) EXCEPT !.version = v] = F(v)
  BY BuildVersion
<1>2. ASSUME NEW v
      PROVE  /\ IsRecord(F(v)) /\ F(v).next_bar = zero /\ F(v).effects = none
             /\ F(v).position = zero /\ F(v).liquidated = no /\ F(v).orders = empty
             /\ F(v).sequence = zero /\ F(v).margin_cache = NoCache
             /\ F(v).snapshot = NoSnapshot /\ F(v).version = v
  BY BuildIsRecord
<1> HIDE DEF F
<1>3. NoCache \in Margins /\ NoCache.valid = FALSE
  BY DEF NoCache, Margins
<1>4. NoSnapshot \in Snapshots /\ NoSnapshot.valid = FALSE
  <2>1. << >> \in Seq(Seq(Effects)) /\ 0 \in 0..Versions - 1
    BY FeedbackAssumption
  <2> QED BY <1>3, <2>1 DEF NoSnapshot, Snapshots
<1>5. ASSUME NEW v \in 0..Versions - 1 PROVE Rest(F(v))
  <2>1. /\ << >> \in Seq(Seq(Effects)) /\ Len(<< >>) = 0
        /\ 0 \in 0..Bars /\ 0 \in 0..MaxOrders /\ 0 \in Int /\ FALSE \in BOOLEAN
        /\ {} \in SUBSET Orders
    BY FeedbackAssumption
  <2>2. Typed(F(v))
    BY <1>0, <1>2, <1>3, <1>4, <2>1, Zenon DEF Typed
  <2>3. Numbered(F(v))
    BY <1>0, <1>2, FS_EmptySet DEF Numbered
  <2>4. CacheCurrent(F(v)) /\ SnapshotIs(F(v))
    BY <1>0, <1>2, <1>3, <1>4 DEF CacheCurrent, SnapshotIs
  <2>5. F(v).liquidated <=> \E i \in 1..Len(F(v).effects) : EndsLiquidated(F(v).effects[i])
    <3>1. ~\E i \in 1..0 : EndsLiquidated(F(v).effects[i])
      OBVIOUS
    <3> QED BY <1>0, <1>2, <2>1, <3>1
  <2> QED BY <1>0, <1>2, <2>1, <2>2, <2>3, <2>4, <2>5 DEF Rest
<1>6. 0 \in 0..Versions - 1
  BY FeedbackAssumption
<1>7. Rest(Fresh) /\ Fresh.effects = << >>
  BY <1>0, <1>2, <1>5, <1>6
<1>8. ASSUME NEW v
      PROVE  /\ v \in 0..Versions - 1 => Rest([Fresh EXCEPT !.version = v])
             /\ [Fresh EXCEPT !.version = v].effects = << >>
  <2>1. [Fresh EXCEPT !.version = v] = F(v)
    BY <1>0, <1>1, Zenon
  <2> QED BY <1>0, <1>2, <1>5, <2>1
<1> QED BY <1>7, <1>8

LEMMA InitInvariant ==
  ASSUME Init
  PROVE  IInv
BY FreshRest DEF Init, IInv

\* What an open transaction is.
LEMMA OpenedFields ==
  ASSUME IInv
  PROVE  /\ InTransaction <=> Opened
         /\ InTransaction => /\ transaction.bar = begun.next_bar
                             /\ transaction.checkpoint = begun
                             /\ begun.next_bar \in Nat /\ begun.next_bar < Bars
                             /\ begun \in Sessions
<1>1. begun \in Sessions /\ begun.next_bar \in Nat
  <2>1. Typed(begun)
    BY DEF IInv, Rest
  <2> QED BY <2>1, TypedIsSession DEF Typed
<1>2. Opened => transaction \in [bar : Nat, checkpoint : Sessions]
  BY <1>1 DEF Opened
<1>3. Opened => transaction # NoTransaction
  BY <1>2, FeedbackAssumption
<1>4. Opened => transaction.bar = begun.next_bar /\ transaction.checkpoint = begun
  BY DEF Opened
<1> QED BY <1>1, <1>3, <1>4 DEF IInv, InTransaction, Opened

\* A step starts from the session as it was when the bar was begun.
LEMMA BaseIsBegun ==
  ASSUME IInv, InTransaction
  PROVE  Base = begun
<1>1. Opened /\ transaction.bar = begun.next_bar /\ transaction.checkpoint = begun
  BY OpenedFields
<1>2. IsRecord(begun) /\ IsRecord(session)
  BY DEF IInv, Rest, Typed
<1>3. Restored(begun, session) = begun
  BY <1>2, RestoredIsAll
<1>4. begun.next_bar \in Nat
  BY DEF IInv, Rest, Typed
<1>5. session.next_bar = begun.next_bar => session = begun
  BY <1>1, <1>4 DEF Opened, Stepped
<1> QED BY <1>1, <1>3, <1>5 DEF Base

\* One step: the bar executed from there, or no trace of it.
LEMMA StepDoes ==
  ASSUME IInv, NEW sides \in Batches, Step(sides)
  PROVE  session' = begun \/ Stepped(begun, session', begun.next_bar)
<1>1. InTransaction
  BY DEF Step
<1>2. /\ transaction.bar = begun.next_bar /\ transaction.checkpoint = begun
      /\ begun.next_bar < Bars /\ Base = begun
  BY <1>1, OpenedFields, BaseIsBegun
<1>3. PICK out \in Outcomes(begun, begun.next_bar, Sides(sides)) : session' = AfterStep(out)
  BY <1>2 DEF Step
<1>4. Sides(sides) \in Seq({-1, 1})
  BY FeedbackAssumption DEF Sides
<1>5. Rest(begun)
  BY DEF IInv
<1>6. /\ out.ok => Stepped(begun, out.session, begun.next_bar)
      /\ ~out.ok => IsRecord(out.session)
  BY <1>2, <1>4, <1>5, StepResult
<1>7. CASE out.ok
  BY <1>3, <1>6, <1>7 DEF AfterStep
<1>8. CASE ~out.ok
  <2>1. session' = Restored(begun, out.session)
    BY <1>2, <1>3, <1>8 DEF AfterStep
  <2>2. IsRecord(begun)
    BY <1>5 DEF Rest, Typed
  <2>3. session' = begun
    BY <1>6, <1>8, <2>1, <2>2, RestoredIsAll
  <2> QED BY <2>3
<1> QED BY <1>7, <1>8

LEMMA AbortRestores ==
  ASSUME IInv, Abort
  PROVE  session' = begun
<1>1. transaction.checkpoint = begun
  BY OpenedFields DEF Abort
<1>2. IsRecord(begun) /\ IsRecord(session)
  BY DEF IInv, Rest, Typed
<1> QED BY <1>1, <1>2, RestoredIsAll DEF Abort

LEMMA NextInvariant ==
  ASSUME IInv, [Next]_vars
  PROVE  IInv'
<1>1. ASSUME NEW bar \in 0..Bars, Begin(bar) PROVE IInv'
  <2>1. IsRecord(session)
    BY DEF IInv, Rest, Typed
  <2>2. transaction' = [bar |-> session.next_bar, checkpoint |-> session]
    BY <1>1, <2>1, CapturedIsAll DEF Begin
  <2>3. session' = session /\ begun' = session /\ closed' = closed /\ session.next_bar < Bars
    BY <1>1 DEF Begin
  <2>4. Opened'
    BY <2>2, <2>3 DEF Opened
  <2> QED BY <2>3, <2>4 DEF IInv
<1>2. ASSUME NEW sides \in Batches, Step(sides) PROVE IInv'
  <2>1. session' = begun \/ Stepped(begun, session', begun.next_bar)
    BY <1>2, StepDoes
  <2>2. begun' = begun /\ transaction' = transaction /\ closed' = closed
    BY <1>2 DEF Step
  <2>3. Opened
    BY <1>2, OpenedFields DEF Step
  <2>4. Opened'
    BY <2>1, <2>2, <2>3 DEF Opened
  <2>5. Rest(session')
    BY <2>1 DEF Stepped, IInv
  <2> QED BY <2>2, <2>4, <2>5 DEF IInv
<1>3. CASE Commit
  BY <1>3 DEF Commit, IInv
<1>4. CASE Abort
  <2>1. session' = begun
    BY <1>4, AbortRestores
  <2> QED BY <1>4, <2>1 DEF Abort, IInv
<1>5. CASE Reset
  <2>1. NextVersion(session.version) \in 0..Versions - 1
    BY VersionWraps DEF IInv, Rest, Typed
  <2>2. Rest(session') /\ Rest(begun')
    BY <1>5, <2>1, FreshRest DEF Reset
  <2> QED BY <1>5, <2>2 DEF Reset, IInv
<1>6. CASE Close
  <2>1. Rest(session') /\ Rest(begun')
    BY <1>6, FreshRest DEF Close
  <2> QED BY <1>6, <2>1 DEF Close, IInv
<1>7. CASE UNCHANGED vars
  BY <1>7 DEF vars, IInv, Opened
<1> QED BY <1>1, <1>2, <1>3, <1>4, <1>5, <1>6, <1>7 DEF Next
LEMMA Invariance == Spec => []IInv
<1>1. Init => IInv
  BY InitInvariant
<1>2. IInv /\ [Next]_vars => IInv'
  BY NextInvariant
<1> QED BY <1>1, <1>2, PTL DEF Spec

-----------------------------------------------------------------------------
(* What follows *)

\* The types of the session and of its transaction; an open bar is the next
\* one of its checkpoint and the session at most one bar ahead of it, for any
\* market, any batches and any history of begun, stepped, aborted and
\* committed bars.
THEOREM TypeCorrect == Spec => []TypeOK
<1>1. ASSUME IInv PROVE TypeOK
  <2>1. Typed(session) /\ Typed(begun) /\ Len(session.effects) = session.next_bar
    BY <1>1 DEF IInv, Rest
  <2>2. session \in Sessions /\ begun \in Sessions
    BY <2>1, TypedIsSession
  <2>3. closed \in BOOLEAN
    BY <1>1 DEF IInv
  <2>4. CASE ~InTransaction
    BY <2>1, <2>2, <2>3, <2>4 DEF TypeOK, InTransaction
  <2>5. CASE InTransaction
    <3>1. /\ Opened /\ transaction.bar = begun.next_bar
          /\ transaction.checkpoint = begun /\ begun.next_bar \in Nat
          /\ begun.next_bar < Bars
      BY <1>1, <2>5, OpenedFields
    <3>2. session.next_bar \in {begun.next_bar, begun.next_bar + 1}
      BY <3>1 DEF Opened, Stepped
    <3>3. begun.next_bar \in 0..Bars - 1
      BY <3>1, FeedbackAssumption
    <3>4. transaction \in [bar : 0..Bars - 1, checkpoint : Sessions]
      BY <2>2, <3>1, <3>3 DEF Opened
    <3> QED BY <2>1, <2>2, <2>3, <3>1, <3>2, <3>4 DEF TypeOK
  <2> QED BY <2>4, <2>5
<1> QED BY <1>1, Invariance, PTL

\* While the open bar has no completed step, the session is what it was when
\* the bar was begun: neither a failed execute_step nor the rewind of an
\* earlier attempt leaves anything behind.
THEOREM NoTrace == Spec => []FailedStepLeavesNoTrace
<1>1. ASSUME IInv PROVE FailedStepLeavesNoTrace
  <2> SUFFICES ASSUME InTransaction, session.next_bar = transaction.bar
               PROVE  session = begun
    BY DEF FailedStepLeavesNoTrace
  <2>1. /\ Opened /\ transaction.bar = begun.next_bar /\ begun.next_bar \in Nat
    BY <1>1, OpenedFields
  <2> QED BY <2>1 DEF Opened, Stepped
<1> QED BY <1>1, Invariance, PTL

\* The cached close margin is that of the position, after every fill,
\* liquidation, rewind and reset (close_margin and its incremental update).
THEOREM MarginIsCurrent == Spec => []MarginCacheCurrent
<1>1. ASSUME IInv PROVE MarginCacheCurrent
  BY <1>1 DEF IInv, Rest, CacheCurrent, MarginCacheCurrent
<1> QED BY <1>1, Invariance, PTL

\* A derived account snapshot that would be served is the one that would be
\* recomputed (post_execution_account_snapshot).
THEOREM SnapshotIsCurrent == Spec => []SnapshotCurrent
<1>1. ASSUME IInv PROVE SnapshotCurrent
  BY <1>1 DEF IInv, Rest, SnapshotIs, SnapshotCurrent
<1> QED BY <1>1, Invariance, PTL

-----------------------------------------------------------------------------
(* The history of atomic bars *)

History == IF InTransaction THEN transaction.checkpoint.effects ELSE session.effects

Tried ==
  IF InTransaction /\ session.next_bar # transaction.bar
    THEN session.effects[Len(session.effects)] ELSE NoAttempt

\* What a caller sees of a session with an open bar and of one without.
LEMMA ShownOpen ==
  ASSUME IInv, InTransaction
  PROVE  /\ History = begun.effects
         /\ session = begun => Tried = NoAttempt
         /\ Stepped(begun, session, begun.next_bar) =>
              /\ Tried \in Seq(Effects) /\ Tried # NoAttempt
              /\ session.effects = Append(begun.effects, Tried)
              /\ IF begun.liquidated THEN Tried = << >>
                 ELSE Atomic!CompleteBar(Tried, begun.next_bar)
<1>1. /\ transaction.bar = begun.next_bar /\ transaction.checkpoint = begun
      /\ begun.next_bar \in Nat
  BY OpenedFields
<1>2. History = begun.effects /\ (session = begun => Tried = NoAttempt)
  BY <1>1 DEF History, Tried
<1>3. ASSUME Stepped(begun, session, begun.next_bar)
      PROVE  /\ Tried \in Seq(Effects) /\ Tried # NoAttempt
             /\ session.effects = Append(begun.effects, Tried)
             /\ IF begun.liquidated THEN Tried = << >>
                ELSE Atomic!CompleteBar(Tried, begun.next_bar)
  <2>1. PICK E \in Seq(Effects) :
          /\ session.effects = Append(begun.effects, E)
          /\ IF begun.liquidated THEN E = << >>
             ELSE Atomic!CompleteBar(E, begun.next_bar)
    BY <1>3 DEF Stepped
  <2>2. begun.effects \in Seq(Seq(Effects))
    BY DEF IInv, Rest, Typed
  <2>3. Tried = session.effects[Len(session.effects)]
    BY <1>1, <1>3 DEF Tried, Stepped
  <2>4. Tried = E
    <3>1. ASSUME NEW h \in Seq(Seq(Effects)), NEW g, g = Append(h, E)
          PROVE  g[Len(g)] = E
      BY <3>1
    <3> QED BY <2>1, <2>2, <2>3, <3>1
  <2>5. E # NoAttempt
    BY FeedbackAssumption
  <2> QED BY <2>1, <2>4, <2>5
<1> QED BY <1>2, <1>3

LEMMA ShownClosed ==
  ASSUME ~InTransaction
  PROVE  History = session.effects /\ Tried = NoAttempt
BY DEF History, Tried

\* The committed bars have ended in a liquidation when the session has.
LEMMA EndedIsLiquidated ==
  ASSUME IInv, InTransaction
  PROVE  Atomic!Ended <=> begun.liquidated
<1>1. History = begun.effects
  BY ShownOpen
<1>2. Rest(begun)
  BY DEF IInv
<1>3. DOMAIN begun.effects = 1..Len(begun.effects)
  BY <1>2 DEF Rest, Typed
<1>4. begun.liquidated <=> \E i \in 1..Len(begun.effects) : EndsLiquidated(begun.effects[i])
  BY <1>2 DEF Rest
<1>5. Atomic!Ended <=> \E i \in DOMAIN History : EndsLiquidated(History[i])
  BY DEF Atomic!Ended, Atomic!Liquidates, EndsLiquidated, History
<1> QED BY <1>1, <1>3, <1>4, <1>5
\* The refinement, as one predicate: what is shown, open or not.
Shown ==
  /\ ~InTransaction => History = session.effects /\ Tried = NoAttempt
  /\ InTransaction =>
       /\ Opened /\ History = begun.effects
       /\ session = begun => Tried = NoAttempt
       /\ Stepped(begun, session, begun.next_bar) =>
            /\ Tried # NoAttempt
            /\ session.effects = Append(begun.effects, Tried)
            /\ IF begun.liquidated THEN Tried = << >>
               ELSE Atomic!CompleteBar(Tried, begun.next_bar)

LEMMA ShownIs == IInv => Shown
<1> SUFFICES ASSUME IInv PROVE Shown
  OBVIOUS
<1>1. CASE InTransaction
  BY <1>1, ShownOpen, OpenedFields DEF Shown
<1>2. CASE ~InTransaction
  BY <1>2, ShownClosed DEF Shown
<1> QED BY <1>1, <1>2

LEMMA ShownNext == IInv' => Shown'
BY ShownIs, PTL

LEMMA InitImplements ==
  ASSUME Init
  PROVE  Atomic!AInit
<1>1. ~InTransaction /\ session.effects = << >>
  BY FreshRest DEF Init, InTransaction
<1>2. History = << >> /\ Tried = NoAttempt
  BY <1>1, ShownClosed
<1> QED BY <1>1, <1>2 DEF Atomic!AInit, History, Tried

LEMMA NextImplements ==
  ASSUME IInv, [Next]_vars
  PROVE  [Atomic!ANext]_(Atomic!avars)
<1>0. IInv' /\ Shown /\ Shown'
  BY NextInvariant, ShownIs, ShownNext
<1> SUFFICES \/ Atomic!ANext
             \/ History' = History /\ InTransaction' = InTransaction /\ Tried' = Tried
  BY DEF Atomic!avars, History, Tried
<1>1. ASSUME NEW bar \in 0..Bars, Begin(bar) PROVE Atomic!Open
  <2>1. /\ ~InTransaction /\ session' = session /\ begun' = session
        /\ transaction' = [bar |-> bar, checkpoint |-> Captured(session)]
    BY <1>1 DEF Begin
  <2>2. IsRecord(session) /\ bar = session.next_bar /\ session \in Sessions
    BY <1>1, TypedIsSession DEF Begin, IInv, Rest, Typed
  <2>3. transaction' \in [bar : Nat, checkpoint : Sessions]
    BY <2>1, <2>2, CapturedIsAll
  <2>4. InTransaction'
    BY <2>3, FeedbackAssumption DEF InTransaction
  <2>5. History' = History /\ Tried' = Tried
    BY <1>0, <2>1, <2>4 DEF Shown
  <2> QED BY <2>1, <2>4, <2>5 DEF Atomic!Open, History, Tried
<1>2. ASSUME NEW sides \in Batches, Step(sides) PROVE Atomic!Attempt \/ Atomic!Fail
  <2>1. InTransaction /\ InTransaction' /\ begun' = begun
    BY <1>2 DEF Step, InTransaction
  <2>2. History' = History /\ History = begun.effects
    BY <1>0, <2>1 DEF Shown
  <2>3. session' = begun \/ Stepped(begun, session', begun.next_bar)
    BY <1>2, StepDoes
  <2>4. CASE session' = begun
    <3>1. Tried' = NoAttempt
      BY <1>0, <2>1, <2>4 DEF Shown
    <3> QED BY <2>1, <2>2, <3>1 DEF Atomic!Fail, History, Tried
  <2>5. CASE Stepped(begun, session', begun.next_bar)
    <3>1. /\ Tried' # NoAttempt
          /\ IF begun.liquidated THEN Tried' = << >>
             ELSE Atomic!CompleteBar(Tried', begun.next_bar)
      BY <1>0, <2>1, <2>5 DEF Shown
    <3>2. Atomic!Ended <=> begun.liquidated
      BY <2>1, EndedIsLiquidated
    <3>3. Len(History) = begun.next_bar
      BY <2>2 DEF IInv, Rest
    <3>4. IF Atomic!Ended THEN Tried' = << >> ELSE Atomic!CompleteBar(Tried', Len(History))
      BY <3>1, <3>2, <3>3
    <3> QED BY <2>1, <2>2, <3>1, <3>4 DEF Atomic!Attempt, History, Tried
  <2> QED BY <2>3, <2>4, <2>5
<1>3. CASE Commit
  <2>1. /\ InTransaction /\ session.next_bar = transaction.bar + 1
        /\ ~InTransaction' /\ session' = session
    BY <1>3 DEF Commit, Committable, InTransaction
  <2>2. /\ transaction.bar = begun.next_bar /\ begun.next_bar \in Nat
    BY <2>1, OpenedFields
  <2>3. Stepped(begun, session, begun.next_bar)
    BY <1>0, <2>1, <2>2 DEF Shown, Opened
  <2>4. /\ Tried # NoAttempt /\ History = begun.effects
        /\ session.effects = Append(begun.effects, Tried)
    BY <1>0, <2>1, <2>3 DEF Shown
  <2>5. History' = session.effects /\ Tried' = NoAttempt
    BY <1>0, <2>1 DEF Shown
  <2>6. History' = Append(History, Tried)
    BY <2>4, <2>5
  <2>7. Atomic!Commit
    BY <2>1, <2>4, <2>5, <2>6 DEF Atomic!Commit, History, Tried, InTransaction
  <2> QED BY <2>7 DEF Atomic!ANext
<1>4. CASE Abort
  <2>1. InTransaction /\ ~InTransaction' /\ session' = begun
    BY <1>4, AbortRestores DEF Abort, InTransaction
  <2>2. History' = History /\ Tried' = NoAttempt
    BY <1>0, <2>1 DEF Shown
  <2>3. Atomic!Abort
    BY <2>1, <2>2 DEF Atomic!Abort, History, Tried, InTransaction
  <2> QED BY <2>3 DEF Atomic!ANext
<1>5. CASE Reset \/ Close
  <2>1. session'.effects = << >> /\ ~InTransaction'
    BY <1>5, FreshRest DEF Reset, Close, InTransaction
  <2>2. History' = << >> /\ Tried' = NoAttempt
    BY <1>0, <2>1 DEF Shown
  <2>3. Atomic!Reset
    BY <2>1, <2>2 DEF Atomic!Reset, History, Tried, InTransaction
  <2> QED BY <2>3 DEF Atomic!ANext
<1>6. CASE UNCHANGED vars
  BY <1>6 DEF vars, History, Tried, InTransaction
<1> QED BY <1>1, <1>2, <1>3, <1>4, <1>5, <1>6 DEF Next, Atomic!ANext

\* The session implements the history of atomic bars: commits alone extend it,
\* each by one complete execution of the bar; failed and repeated attempts and
\* aborts leave it as it was (begin, execute_step, commit, abort, reset, close).
THEOREM SessionImplementsAtomicBars == Spec => ImplementsAtomicBars
<1>1. Init => Atomic!AInit
  BY InitImplements
<1>2. IInv /\ [Next]_vars => [Atomic!ANext]_(Atomic!avars)
  BY NextImplements
<1> QED BY <1>1, <1>2, Invariance, PTL DEF Spec, ImplementsAtomicBars, Atomic!ASpec
=============================================================================
