--------------------------- MODULE ServerGuiProofs ---------------------------
(***************************************************************************)
(* Proofs about ServerGui, for any number of clients, widgets and calls:   *)
(* who has read everything sees what the scripts have, and clicks are      *)
(* heard in order and once.                                                *)
(*                                                                         *)
(* The strengthening speaks of a view: a client's widgets w and items l,   *)
(* the packets s it has still to read and those not yet sent, and the      *)
(* number f of widgets announced before it came; n is the number of ids    *)
(* given out and v what the scripts have.  A player who has never been     *)
(* away has such a view, and so has whoever comes next.                    *)
(***************************************************************************)
EXTENDS ServerGui, SequenceTheorems, TLAPS

Widgets == [kind : Kinds, parent : Ids \cup {NoParent}, visible : BOOLEAN]
Packets == [op : {"new"}, id : Ids, widget : Widgets]
             \cup [op : {"remove"}, id : Ids] \cup [op : {"visible"}, id : Ids, value : BOOLEAN]

\* Widget id is still to come in s; or the client has had it.
Pending(s, id) == \E i \in DOMAIN s : s[i].op = "new" /\ s[i].id = id
Had(n, f, s, id) == f < id /\ id <= n /\ ~ Pending(s, id)

\* Widgets hang below older ones.
WidgetsAreOrdered(n, v) ==
  /\ n \in 0 .. MaxWidgets
  /\ v \in [Ids -> Widgets \cup {Absent}]
  /\ \A id \in Ids : v[id] # Absent => id <= n /\ v[id].parent < id

ViewTypeOK(n, f, w, l, s) ==
  /\ f \in 0 .. n
  /\ w \in [Ids -> Widgets \cup {Absent}]
  /\ l \in [Ids -> Seq(Ids)]
  /\ s \in Seq(Packets)

\* Widgets come in the order of their ids, and each before what is said of it.
NewsInOrder(n, f, s) ==
  /\ \A i \in DOMAIN s : s[i].id <= n
  /\ \A i \in DOMAIN s : s[i].op = "new" =>
       /\ f < s[i].id
       /\ s[i].widget.visible /\ s[i].widget.parent < s[i].id
       /\ s[i].widget.kind = "ListItem" => s[i].widget.parent # NoParent
  /\ \A i, j \in DOMAIN s : s[i].op = "new" /\ s[j].op = "new" /\ i < j => s[i].id < s[j].id
  /\ \A i \in DOMAIN s, id \in Ids : s[i].op = "new" /\ Had(n, f, s, id) => id < s[i].id
  /\ \A i, j \in DOMAIN s :
       s[i].op = "new" /\ s[j].op # "new" /\ s[i].id = s[j].id => i < j

OnlyHadIsShown(n, f, w, s) ==
  \A id \in Ids : w[id] # Absent => Had(n, f, s, id) /\ w[id].parent < id

\* What the scripts have is there or comes, as it is, and does not go.
WantedStays(n, v, f, w, s) ==
  \A id \in Ids : f < id /\ v[id] # Absent =>
    /\ \A i \in DOMAIN s : s[i].id = id => s[i].op # "remove"
    /\ \A i \in DOMAIN s : s[i].id = id /\ s[i].op = "new" =>
         s[i].widget.kind = v[id].kind /\ s[i].widget.parent = v[id].parent
    /\ Had(n, f, s, id) => /\ w[id] # Absent
                           /\ w[id].kind = v[id].kind /\ w[id].parent = v[id].parent

IsLastWord(s, i, id) ==
  /\ s[i].op = "visible" /\ s[i].id = id
  /\ \A j \in DOMAIN s : s[j].op = "visible" /\ s[j].id = id => j <= i

\* The last word on whether it is visible is the scripts'.
WantedIsVisible(n, v, f, w, s) ==
  \A id \in Ids : f < id /\ v[id] # Absent =>
    /\ \A i \in DOMAIN s : IsLastWord(s, i, id) => s[i].value = v[id].visible
    /\ (\A i \in DOMAIN s : s[i].id = id => s[i].op # "visible") =>
         v[id].visible = IF Pending(s, id) THEN TRUE ELSE w[id].visible

\* What the scripts do not have goes, has gone, or hangs below such a widget.
UnwantedGoes(n, v, f, w, s) ==
  \A id \in Ids : f < id /\ id <= n /\ v[id] = Absent =>
    \/ \E i \in DOMAIN s : s[i].op = "remove" /\ s[i].id = id
    \/ /\ ~ Pending(s, id)
       /\ w[id] = Absent \/ (w[id].parent \in Ids /\ v[w[id].parent] = Absent)
    \/ \E i \in DOMAIN s : /\ s[i].op = "new" /\ s[i].id = id
                           /\ s[i].widget.parent \in Ids /\ v[s[i].widget.parent] = Absent

\* A list holds its items in the order of their ids.
ItemsAreOrdered(n, f, w, l, s) ==
  \A list \in Ids :
    /\ \A j, k \in DOMAIN l[list] : j < k => l[list][j] < l[list][k]
    /\ \A k \in DOMAIN l[list] :
         /\ Had(n, f, s, l[list][k])
         /\ w[l[list][k]] # Absent =>
              w[l[list][k]].kind = "ListItem" /\ w[l[list][k]].parent = list

\* The items the scripts have in a list they have are listed once they are had.
ItemsAreListed(n, v, f, w, l, s) ==
  \A id \in Ids :
    Had(n, f, s, id) /\ v[id] # Absent /\ v[id].kind = "ListItem" =>
      LET list == v[id].parent IN
      f < list /\ v[list] # Absent => \E k \in DOMAIN l[list] : l[list][k] = id

View(n, v, f, w, l, s) ==
  /\ ViewTypeOK(n, f, w, l, s)
  /\ NewsInOrder(n, f, s)
  /\ OnlyHadIsShown(n, f, w, s)
  /\ WantedStays(n, v, f, w, s)
  /\ WantedIsVisible(n, v, f, w, s)
  /\ UnwantedGoes(n, v, f, w, s)
  /\ ItemsAreOrdered(n, f, w, l, s)
  /\ ItemsAreListed(n, v, f, w, l, s)

GuiStates ==
  [widgets : [Ids -> Widgets \cup {Absent}], items : [Ids -> Seq(Ids)], clicks : Seq(Nat)]

GuiTypeOK ==
  /\ sent \in 0 .. lastId
  /\ inGame \subseteq Clients
  /\ queue \in Seq(Packets)
  /\ wire \in [Clients -> Seq(Packets)]
  /\ gui \in [Clients -> GuiStates]
  /\ from \in [Clients -> Nat] /\ leaves \in [Clients -> Nat]

\* Who comes next has nothing; who has never been away has its part.
EverybodyHasAView ==
  /\ View(lastId, wanted, sent, Nothing.widgets, Nothing.items, queue)
  /\ \A c \in Clients : leaves[c] = 0 =>
       IF c \in inGame
         THEN View(lastId, wanted, from[c], gui[c].widgets, gui[c].items, wire[c] \o queue)
         ELSE wire[c] = <<>> /\ gui[c].widgets = Nothing.widgets /\ gui[c].items = Nothing.items

GuiInv == WidgetsAreOrdered(lastId, wanted) /\ GuiTypeOK /\ EverybodyHasAView

-----------------------------------------------------------------------------
(* Sets and sequences.                                                     *)

\* Below a widget is, but for itself, only what hangs on something below it.
LEMMA BelowHangs ==
  ASSUME NEW id \in Ids
  PROVE  /\ Below(id) \subseteq Ids /\ id \in Below(id)
         /\ \A x \in Below(id) : x = id \/ (wanted[x] # Absent /\ wanted[x].parent \in Below(id))
<1> DEFINE B == Below(id)
           Closed(S) == \A x \in Ids : wanted[x] # Absent /\ wanted[x].parent \in S => x \in S
<1>1. B = {x \in Ids : \A S \in SUBSET Ids : id \in S /\ Closed(S) => x \in S}
  BY DEF Below
<1>2. B \subseteq Ids /\ id \in B
  BY <1>1
<1>3. Closed(B)
  BY <1>1
<1> HIDE DEF B
<1>4. ASSUME NEW x \in B, x # id, ~ (wanted[x] # Absent /\ wanted[x].parent \in B)
      PROVE  FALSE
  <2> DEFINE S == B \ {x}
  <2>1. S \in SUBSET Ids /\ id \in S /\ x \notin S
    BY <1>2, <1>4
  <2>2. Closed(S)
    BY <1>3, <1>4
  <2> HIDE DEF S
  <2> QED BY <1>1, <1>4, <2>1, <2>2
<1> QED BY <1>2, <1>4 DEF B

\* A packet put at the end of others.
LEMMA AfterAppend ==
  ASSUME NEW T, NEW s \in Seq(T), NEW e \in T, NEW t, t = Append(s, e)
  PROVE  /\ t \in Seq(T) /\ Len(s) + 1 \in Nat
         /\ DOMAIN t = DOMAIN s \cup {Len(s) + 1} /\ t[Len(s) + 1] = e
         /\ \A i \in DOMAIN s : i \in Nat /\ i < Len(s) + 1 /\ t[i] = s[i]
<1>1. Len(s) \in Nat /\ DOMAIN s = 1 .. Len(s)
  BY LenProperties
<1>2. /\ t \in Seq(T) /\ Len(t) = Len(s) + 1 /\ t[Len(s) + 1] = e
      /\ \A i \in 1 .. Len(s) : t[i] = s[i]
  BY AppendProperties
<1>3. DOMAIN t = 1 .. Len(s) + 1
  BY <1>2, LenProperties
<1> QED BY <1>1, <1>2, <1>3

LEMMA AppendToConcat ==
  ASSUME NEW T, NEW s \in Seq(T), NEW t \in Seq(T), NEW e \in T
  PROVE  s \o Append(t, e) = Append(s \o t, e)
<1>1. <<e>> \in Seq(T) /\ s \o t \in Seq(T)
  BY ConcatProperties
<1>2. Append(t, e) = t \o <<e>> /\ Append(s \o t, e) = (s \o t) \o <<e>>
  BY <1>1, AppendIsConcat
<1> QED BY <1>1, <1>2, ConcatAssociative

-----------------------------------------------------------------------------
(* A call of the scripts is heard of by everybody who is to hear of it.    *)

LEMMA CreateView ==
  ASSUME NEW n, NEW v, NEW f, NEW w, NEW l, NEW s,
         WidgetsAreOrdered(n, v), View(n, v, f, w, l, s), n < MaxWidgets,
         NEW kind \in Kinds, NEW parent \in Ids \cup {NoParent},
         parent <= n, kind = "ListItem" => parent # NoParent,
         NEW v2, v2 = [v EXCEPT ![n + 1] = IF parent # NoParent /\ v[parent] = Absent
                                             THEN Absent ELSE Widget(kind, parent)],
         NEW t, t = Append(s, New(n + 1, kind, parent))
  PROVE  WidgetsAreOrdered(n + 1, v2) /\ View(n + 1, v2, f, w, l, t)
<1> DEFINE e == New(n + 1, kind, parent)
           m == Len(s) + 1
<1>1. /\ n \in Nat /\ n + 1 \in Ids /\ MaxWidgets \in Nat /\ f \in 0 .. n
      /\ v \in [Ids -> Widgets \cup {Absent}] /\ w \in [Ids -> Widgets \cup {Absent}]
      /\ l \in [Ids -> Seq(Ids)] /\ s \in Seq(Packets) /\ v[n + 1] = Absent
  BY ServerGuiAssumption DEF WidgetsAreOrdered, View, ViewTypeOK, ServerGuiAssumption, Ids
<1>2. /\ e \in Packets /\ e.op = "new" /\ e.id = n + 1 /\ e.widget = Widget(kind, parent)
      /\ Widget(kind, parent) \in Widgets /\ Widget(kind, parent).visible
      /\ Widget(kind, parent).kind = kind /\ Widget(kind, parent).parent = parent
  BY <1>1 DEF New, Packets, Widget, Widgets
<1>3. Widget(kind, parent) # Absent
  BY <1>2 DEF Absent, Kinds
<1> HIDE DEF e
<1>4. /\ t \in Seq(Packets) /\ m \in Nat /\ DOMAIN t = DOMAIN s \cup {m} /\ t[m] = e
      /\ \A i \in DOMAIN s : i \in Nat /\ i < m /\ t[i] = s[i]
  BY <1>1, <1>2, AfterAppend DEF e
<1> HIDE DEF m
<1>5. \A i \in DOMAIN s : s[i].id \in Ids /\ s[i].id <= n
  BY <1>1 DEF View, NewsInOrder, Packets
<1>6. /\ \A id \in Ids : Pending(t, id) <=> Pending(s, id) \/ id = n + 1
      /\ \A id \in Ids : Had(n + 1, f, t, id) <=> Had(n, f, s, id)
  <2>1. ASSUME NEW id \in Ids PROVE Pending(t, id) <=> Pending(s, id) \/ id = n + 1
    BY <1>2, <1>4 DEF Pending
  <2>2. ASSUME NEW id \in Ids PROVE id <= n + 1 /\ id # n + 1 <=> id <= n
    BY <1>1 DEF Ids
  <2> QED BY <2>1, <2>2 DEF Had
<1>7. /\ v2 \in [Ids -> Widgets \cup {Absent}] /\ \A id \in Ids : id # n + 1 => v2[id] = v[id]
      /\ v2[n + 1] = IF parent # NoParent /\ v[parent] = Absent THEN Absent
                     ELSE Widget(kind, parent)
  BY <1>1, <1>2
<1>8. WidgetsAreOrdered(n + 1, v2)
  <2>1. n + 1 \in 0 .. MaxWidgets
    BY <1>1 DEF Ids
  <2>2. ASSUME NEW id \in Ids, v2[id] # Absent PROVE id <= n + 1 /\ v2[id].parent < id
    <3>1. CASE id = n + 1
      BY <1>1, <1>2, <1>7, <2>2, <3>1 DEF Ids, NoParent
    <3>2. CASE id # n + 1
      <4>1. v[id] # Absent /\ v2[id].parent = v[id].parent
        BY <1>7, <2>2, <3>2
      <4>2. id <= n /\ v[id].parent < id
        BY <4>1 DEF WidgetsAreOrdered
      <4> QED BY <1>1, <4>1, <4>2 DEF Ids
    <3> QED BY <3>1, <3>2
  <2> QED BY <1>7, <2>1, <2>2 DEF WidgetsAreOrdered
<1>9. ViewTypeOK(n + 1, f, w, l, t)
  BY <1>1, <1>4 DEF ViewTypeOK
<1>10. NewsInOrder(n + 1, f, t)
  <2>1. NewsInOrder(n, f, s)
    BY DEF View
  <2>2. \A i \in DOMAIN t : (i \in DOMAIN s /\ t[i] = s[i]) \/ (i = m /\ t[i] = e)
    BY <1>4
  <2>3. \A i \in DOMAIN t : t[i].id <= n + 1
    BY <1>1, <1>2, <1>5, <2>2 DEF Ids
  <2>4. \A i \in DOMAIN t : t[i].op = "new" =>
          /\ f < t[i].id
          /\ t[i].widget.visible /\ t[i].widget.parent < t[i].id
          /\ t[i].widget.kind = "ListItem" => t[i].widget.parent # NoParent
    <3>1. f < n + 1 /\ parent < n + 1
      BY <1>1 DEF Ids, NoParent
    <3> QED BY <1>2, <2>1, <2>2, <3>1 DEF NewsInOrder
  <2>5. \A i, j \in DOMAIN t : t[i].op = "new" /\ t[j].op = "new" /\ i < j => t[i].id < t[j].id
    <3>1. ASSUME NEW i \in DOMAIN t, NEW j \in DOMAIN t, t[i].op = "new", t[j].op = "new", i < j
          PROVE  t[i].id < t[j].id
      <4>1. i \in DOMAIN s
        BY <1>4, <3>1
      <4>2. CASE j \in DOMAIN s
        BY <1>4, <2>1, <3>1, <4>1, <4>2 DEF NewsInOrder
      <4>3. CASE j = m
        BY <1>1, <1>2, <1>4, <1>5, <4>1, <4>3 DEF Ids
      <4> QED BY <2>2, <4>2, <4>3
    <3> QED BY <3>1
  <2>6. \A i \in DOMAIN t, id \in Ids : t[i].op = "new" /\ Had(n + 1, f, t, id) => id < t[i].id
    <3>1. ASSUME NEW i \in DOMAIN t, NEW id \in Ids, t[i].op = "new", Had(n + 1, f, t, id)
          PROVE  id < t[i].id
      <4>1. Had(n, f, s, id)
        BY <1>6, <3>1
      <4>2. CASE i \in DOMAIN s /\ t[i] = s[i]
        BY <2>1, <3>1, <4>1, <4>2 DEF NewsInOrder
      <4>3. CASE t[i] = e
        BY <1>1, <1>2, <4>1, <4>3 DEF Had, Ids
      <4> QED BY <2>2, <4>2, <4>3
    <3> QED BY <3>1
  <2>7. \A i, j \in DOMAIN t : t[i].op = "new" /\ t[j].op # "new" /\ t[i].id = t[j].id => i < j
    <3>1. ASSUME NEW i \in DOMAIN t, NEW j \in DOMAIN t,
                 t[i].op = "new", t[j].op # "new", t[i].id = t[j].id
          PROVE  i < j
      <4>1. j \in DOMAIN s /\ t[j] = s[j] /\ t[j].id <= n
        BY <1>2, <1>5, <2>2, <3>1
      <4>2. i \in DOMAIN s /\ t[i] = s[i]
        BY <1>1, <1>2, <2>2, <3>1, <4>1
      <4> QED BY <2>1, <3>1, <4>1, <4>2 DEF NewsInOrder
    <3> QED BY <3>1
  <2> QED BY <2>3, <2>4, <2>5, <2>6, <2>7 DEF NewsInOrder
<1>11. OnlyHadIsShown(n + 1, f, w, t)
  BY <1>6 DEF View, OnlyHadIsShown
<1>12. WantedStays(n + 1, v2, f, w, t)
  BY <1>1, <1>2, <1>4, <1>5, <1>6, <1>7 DEF View, WantedStays, Had
<1>13. WantedIsVisible(n + 1, v2, f, w, t)
  <2> SUFFICES ASSUME NEW id \in Ids, f < id, v2[id] # Absent
               PROVE  /\ \A i \in DOMAIN t : IsLastWord(t, i, id) => t[i].value = v2[id].visible
                      /\ (\A i \in DOMAIN t : t[i].id = id => t[i].op # "visible") =>
                           v2[id].visible = IF Pending(t, id) THEN TRUE ELSE w[id].visible
    BY DEF WantedIsVisible
  <2>1. CASE id = n + 1
    <3>1. \A i \in DOMAIN t : t[i].id = id => t[i].op # "visible"
      BY <1>1, <1>2, <1>4, <1>5, <2>1
    <3>2. v2[id].visible = TRUE /\ Pending(t, id)
      BY <1>2, <1>6, <1>7, <2>1
    <3> QED BY <3>1, <3>2 DEF IsLastWord
  <2>2. CASE id # n + 1
    <3>1. \A i \in DOMAIN t : IsLastWord(t, i, id) => i \in DOMAIN s /\ IsLastWord(s, i, id)
      BY <1>2, <1>4 DEF IsLastWord
    <3>2. /\ \A i \in DOMAIN s : IsLastWord(s, i, id) => s[i].value = v[id].visible
          /\ (\A i \in DOMAIN s : s[i].id = id => s[i].op # "visible") =>
               v[id].visible = IF Pending(s, id) THEN TRUE ELSE w[id].visible
      BY <1>7, <2>2 DEF View, WantedIsVisible
    <3>3. (\A i \in DOMAIN t : t[i].id = id => t[i].op # "visible") =>
            \A i \in DOMAIN s : s[i].id = id => s[i].op # "visible"
      BY <1>4
    <3>4. v2[id] = v[id] /\ (Pending(t, id) <=> Pending(s, id))
      BY <1>6, <1>7, <2>2
    <3> QED BY <1>4, <3>1, <3>2, <3>3, <3>4
  <2> QED BY <2>1, <2>2
<1>14. UnwantedGoes(n + 1, v2, f, w, t)
  <2> SUFFICES ASSUME NEW id \in Ids, f < id, id <= n + 1, v2[id] = Absent
               PROVE  \/ \E i \in DOMAIN t : t[i].op = "remove" /\ t[i].id = id
                      \/ /\ ~ Pending(t, id)
                         /\ w[id] = Absent \/ (w[id].parent \in Ids /\ v2[w[id].parent] = Absent)
                      \/ \E i \in DOMAIN t :
                           /\ t[i].op = "new" /\ t[i].id = id
                           /\ t[i].widget.parent \in Ids /\ v2[t[i].widget.parent] = Absent
    BY DEF UnwantedGoes
  <2>1. CASE id = n + 1
    <3>1. parent \in Ids /\ v[parent] = Absent
      BY <1>3, <1>7, <2>1
    <3>2. parent # n + 1
      BY <1>1
    <3>3. v2[parent] = Absent /\ m \in DOMAIN t /\ t[m] = e
      BY <1>4, <1>7, <3>1, <3>2
    <3> QED BY <1>2, <2>1, <3>1, <3>3
  <2>2. CASE id # n + 1
    <3>1. id <= n /\ v[id] = Absent
      BY <1>1, <1>7, <2>2 DEF Ids
    <3>2. \/ \E i \in DOMAIN s : s[i].op = "remove" /\ s[i].id = id
          \/ /\ ~ Pending(s, id)
             /\ w[id] = Absent \/ (w[id].parent \in Ids /\ v[w[id].parent] = Absent)
          \/ \E i \in DOMAIN s : /\ s[i].op = "new" /\ s[i].id = id
                                 /\ s[i].widget.parent \in Ids /\ v[s[i].widget.parent] = Absent
      BY <3>1 DEF View, UnwantedGoes
    <3>3. w[id] # Absent => w[id].parent < id
      BY DEF View, OnlyHadIsShown
    <3>4. \A i \in DOMAIN s : s[i].op = "new" => s[i].widget.parent < s[i].id
      BY DEF View, NewsInOrder
    <3>5. \A x \in Ids : x < id => v2[x] = v[x]
      BY <1>1, <1>7, <3>1 DEF Ids
    <3>6. Pending(t, id) <=> Pending(s, id)
      BY <1>6, <2>2
    <3> QED BY <1>4, <3>2, <3>3, <3>4, <3>5, <3>6
  <2> QED BY <2>1, <2>2
<1>15. ItemsAreOrdered(n + 1, f, w, l, t)
  <2>1. \A list \in Ids : \A k \in DOMAIN l[list] : l[list][k] \in Ids
    BY <1>1
  <2> QED BY <1>6, <2>1 DEF View, ItemsAreOrdered
<1>16. ItemsAreListed(n + 1, v2, f, w, l, t)
  <2> SUFFICES ASSUME NEW id \in Ids, Had(n + 1, f, t, id), v2[id] # Absent,
                      v2[id].kind = "ListItem", f < v2[id].parent, v2[v2[id].parent] # Absent
               PROVE  \E k \in DOMAIN l[v2[id].parent] : l[v2[id].parent][k] = id
    BY DEF ItemsAreListed
  <2>1. Had(n, f, s, id) /\ id <= n /\ id # n + 1 /\ v2[id] = v[id]
    BY <1>1, <1>6, <1>7 DEF Had, Ids
  <2>2. v[id].parent \in Ids /\ v[id].parent < id
    <3>1. v[id] \in Widgets /\ v[id].parent < id
      BY <1>1, <2>1 DEF WidgetsAreOrdered
    <3> QED BY <1>1, <2>1, <3>1 DEF Widgets, Ids, NoParent
  <2>3. v2[v[id].parent] = v[v[id].parent]
    BY <1>1, <1>7, <2>1, <2>2 DEF Ids
  <2> QED BY <2>1, <2>2, <2>3 DEF View, ItemsAreListed
<1> QED BY <1>8, <1>9, <1>10, <1>11, <1>12, <1>13, <1>14, <1>15, <1>16 DEF View

\* What is said of a widget given out comes after the widget.
LEMMA SaidOfWidget ==
  ASSUME NEW n, NEW f, NEW s \in Seq(Packets), NewsInOrder(n, f, s),
         NEW e \in Packets, e.op # "new", e.id <= n, NEW t, t = Append(s, e)
  PROVE  /\ t \in Seq(Packets) /\ Len(s) + 1 \in Nat
         /\ DOMAIN t = DOMAIN s \cup {Len(s) + 1} /\ t[Len(s) + 1] = e
         /\ \A i \in DOMAIN s : i \in Nat /\ i < Len(s) + 1 /\ t[i] = s[i]
         /\ \A id \in Ids : Pending(t, id) <=> Pending(s, id)
         /\ \A id \in Ids : Had(n, f, t, id) <=> Had(n, f, s, id)
<1> DEFINE m == Len(s) + 1
<1>1. /\ t \in Seq(Packets) /\ m \in Nat /\ DOMAIN t = DOMAIN s \cup {m} /\ t[m] = e
      /\ \A i \in DOMAIN s : i \in Nat /\ i < m /\ t[i] = s[i]
  BY AfterAppend
<1> HIDE DEF m
<1>2. \A i \in DOMAIN t : (i \in DOMAIN s /\ t[i] = s[i]) \/ (i = m /\ t[i] = e)
  BY <1>1
<1>3. /\ \A id \in Ids : Pending(t, id) <=> Pending(s, id)
      /\ \A id \in Ids : Had(n, f, t, id) <=> Had(n, f, s, id)
  BY <1>1 DEF Pending, Had
<1> QED BY <1>1, <1>3 DEF m

LEMMA SaidInOrder ==
  ASSUME NEW n, NEW f, NEW s \in Seq(Packets), NewsInOrder(n, f, s),
         NEW e \in Packets, e.op # "new", e.id <= n, NEW t, t = Append(s, e)
  PROVE  NewsInOrder(n, f, t)
<1> DEFINE m == Len(s) + 1
<1>1. /\ DOMAIN t = DOMAIN s \cup {m} /\ t[m] = e
      /\ \A i \in DOMAIN s : i < m /\ t[i] = s[i]
      /\ \A id \in Ids : Had(n, f, t, id) <=> Had(n, f, s, id)
  <2>1. DOMAIN t = DOMAIN s \cup {m} /\ t[m] = e
    BY SaidOfWidget
  <2>2. \A i \in DOMAIN s : i < m /\ t[i] = s[i]
    BY SaidOfWidget
  <2>3. \A id \in Ids : Had(n, f, t, id) <=> Had(n, f, s, id)
    BY SaidOfWidget
  <2> QED BY ONLY <2>1, <2>2, <2>3
<1> HIDE DEF m
<1>2. \A i \in DOMAIN t : (i \in DOMAIN s /\ t[i] = s[i]) \/ (i = m /\ t[i] = e)
  BY <1>1
<1>3. \A i \in DOMAIN t : t[i].op = "new" => i \in DOMAIN s /\ t[i] = s[i] /\ i < m
  BY <1>1
<1>4. \A i \in DOMAIN t : t[i].id <= n
  BY <1>2 DEF NewsInOrder
<1>5. \A i \in DOMAIN t : t[i].op = "new" =>
        /\ f < t[i].id
        /\ t[i].widget.visible /\ t[i].widget.parent < t[i].id
        /\ t[i].widget.kind = "ListItem" => t[i].widget.parent # NoParent
  BY <1>3 DEF NewsInOrder
<1>6. \A i, j \in DOMAIN t : t[i].op = "new" /\ t[j].op = "new" /\ i < j => t[i].id < t[j].id
  BY <1>3 DEF NewsInOrder
<1>7. \A i \in DOMAIN t, id \in Ids : t[i].op = "new" /\ Had(n, f, t, id) => id < t[i].id
  BY <1>1, <1>3 DEF NewsInOrder
<1>8. \A i, j \in DOMAIN t : t[i].op = "new" /\ t[j].op # "new" /\ t[i].id = t[j].id => i < j
  BY <1>2, <1>3 DEF NewsInOrder
<1> QED BY <1>4, <1>5, <1>6, <1>7, <1>8 DEF NewsInOrder

LEMMA DestroyView ==
  ASSUME NEW n, NEW v, NEW f, NEW w, NEW l, NEW s,
         WidgetsAreOrdered(n, v), View(n, v, f, w, l, s),
         NEW x \in Ids, x <= n, NEW B \in SUBSET Ids, x \in B,
         \A y \in B : y = x \/ (v[y] # Absent /\ v[y].parent \in B),
         NEW v2, v2 = [y \in Ids |-> IF y \in B THEN Absent ELSE v[y]],
         NEW t, t = Append(s, Gone(x))
  PROVE  WidgetsAreOrdered(n, v2) /\ View(n, v2, f, w, l, t)
<1> DEFINE e == Gone(x)
           m == Len(s) + 1
<1>1. /\ n \in Nat /\ f \in 0 .. n
      /\ v \in [Ids -> Widgets \cup {Absent}] /\ w \in [Ids -> Widgets \cup {Absent}]
      /\ l \in [Ids -> Seq(Ids)] /\ s \in Seq(Packets)
  BY ServerGuiAssumption DEF WidgetsAreOrdered, View, ViewTypeOK, ServerGuiAssumption
<1>2. e \in Packets /\ e.op = "remove" /\ e.id = x
  BY DEF Gone, Packets
<1> HIDE DEF e
<1>3. /\ t \in Seq(Packets) /\ m \in Nat /\ DOMAIN t = DOMAIN s \cup {m} /\ t[m] = e
      /\ \A i \in DOMAIN s : i \in Nat /\ i < m /\ t[i] = s[i]
      /\ \A id \in Ids : Pending(t, id) <=> Pending(s, id)
      /\ \A id \in Ids : Had(n, f, t, id) <=> Had(n, f, s, id)
      /\ NewsInOrder(n, f, t)
  <2>1. NewsInOrder(n, f, s) /\ t = Append(s, e)
    BY DEF View, e
  <2>2. s \in Seq(Packets) /\ e \in Packets /\ e.op # "new" /\ e.id <= n
    BY <1>1, <1>2
  <2>3. NewsInOrder(n, f, t)
    BY <2>1, <2>2, SaidInOrder
  <2>4. t \in Seq(Packets) /\ m \in Nat /\ DOMAIN t = DOMAIN s \cup {m} /\ t[m] = e
    BY <2>1, <2>2, SaidOfWidget
  <2>5. \A i \in DOMAIN s : i \in Nat /\ i < m /\ t[i] = s[i]
    BY <2>1, <2>2, SaidOfWidget
  <2>6. \A id \in Ids : Pending(t, id) <=> Pending(s, id)
    BY <2>1, <2>2, SaidOfWidget
  <2>7. \A id \in Ids : Had(n, f, t, id) <=> Had(n, f, s, id)
    BY <2>1, <2>2, SaidOfWidget
  <2> QED BY ONLY <2>3, <2>4, <2>5, <2>6, <2>7
<1> HIDE DEF m
<1>4. \A i \in DOMAIN t : (i \in DOMAIN s /\ t[i] = s[i]) \/ (i = m /\ t[i] = e)
  BY <1>3
<1>5. /\ v2 \in [Ids -> Widgets \cup {Absent}]
      /\ \A id \in Ids : v2[id] = IF id \in B THEN Absent ELSE v[id]
      /\ \A id \in Ids : v2[id] # Absent => v2[id] = v[id] /\ v[id] # Absent /\ id # x
      /\ \A id \in Ids : v[id] = Absent => v2[id] = Absent
  BY <1>1
<1>6. WidgetsAreOrdered(n, v2)
  BY <1>5 DEF WidgetsAreOrdered
<1>7. ViewTypeOK(n, f, w, l, t)
  BY <1>1, <1>3 DEF ViewTypeOK
<1>8. OnlyHadIsShown(n, f, w, t)
  BY <1>3 DEF View, OnlyHadIsShown
<1>9. WantedStays(n, v2, f, w, t)
  BY <1>2, <1>3, <1>4, <1>5 DEF View, WantedStays
<1>10. WantedIsVisible(n, v2, f, w, t)
  <2> SUFFICES ASSUME NEW id \in Ids, f < id, v2[id] # Absent
               PROVE  /\ \A i \in DOMAIN t : IsLastWord(t, i, id) => t[i].value = v2[id].visible
                      /\ (\A i \in DOMAIN t : t[i].id = id => t[i].op # "visible") =>
                           v2[id].visible = IF Pending(t, id) THEN TRUE ELSE w[id].visible
    BY DEF WantedIsVisible
  <2>1. \A i \in DOMAIN t : IsLastWord(t, i, id) => i \in DOMAIN s /\ IsLastWord(s, i, id)
    BY <1>2, <1>3 DEF IsLastWord
  <2>2. /\ \A i \in DOMAIN s : IsLastWord(s, i, id) => s[i].value = v[id].visible
        /\ (\A i \in DOMAIN s : s[i].id = id => s[i].op # "visible") =>
             v[id].visible = IF Pending(s, id) THEN TRUE ELSE w[id].visible
    BY <1>5 DEF View, WantedIsVisible
  <2>3. (\A i \in DOMAIN t : t[i].id = id => t[i].op # "visible") =>
          \A i \in DOMAIN s : s[i].id = id => s[i].op # "visible"
    BY <1>3
  <2>4. v2[id] = v[id] /\ (Pending(t, id) <=> Pending(s, id))
    BY <1>3, <1>5
  <2> QED BY <1>3, <2>1, <2>2, <2>3, <2>4
<1>11. UnwantedGoes(n, v2, f, w, t)
  <2> SUFFICES ASSUME NEW id \in Ids, f < id, id <= n, v2[id] = Absent
               PROVE  \/ \E i \in DOMAIN t : t[i].op = "remove" /\ t[i].id = id
                      \/ /\ ~ Pending(t, id)
                         /\ w[id] = Absent \/ (w[id].parent \in Ids /\ v2[w[id].parent] = Absent)
                      \/ \E i \in DOMAIN t :
                           /\ t[i].op = "new" /\ t[i].id = id
                           /\ t[i].widget.parent \in Ids /\ v2[t[i].widget.parent] = Absent
    BY DEF UnwantedGoes
  <2>1. CASE v[id] = Absent
    <3>1. \/ \E i \in DOMAIN s : s[i].op = "remove" /\ s[i].id = id
          \/ /\ ~ Pending(s, id)
             /\ w[id] = Absent \/ (w[id].parent \in Ids /\ v[w[id].parent] = Absent)
          \/ \E i \in DOMAIN s : /\ s[i].op = "new" /\ s[i].id = id
                                 /\ s[i].widget.parent \in Ids /\ v[s[i].widget.parent] = Absent
      BY <2>1 DEF View, UnwantedGoes
    <3>2. CASE \E i \in DOMAIN s : s[i].op = "remove" /\ s[i].id = id
      BY <1>3, <3>2
    <3>3. CASE /\ ~ Pending(s, id)
               /\ w[id] = Absent \/ (w[id].parent \in Ids /\ v[w[id].parent] = Absent)
      BY <1>3, <1>5, <3>3
    <3>4. CASE \E i \in DOMAIN s : /\ s[i].op = "new" /\ s[i].id = id
                                   /\ s[i].widget.parent \in Ids
                                   /\ v[s[i].widget.parent] = Absent
      BY <1>3, <1>5, <3>4
    <3> QED BY <3>1, <3>2, <3>3, <3>4
  <2>2. CASE id = x
    BY <1>2, <1>3, <2>2
  <2>3. CASE v[id] # Absent /\ id # x
    <3>1. v[id].parent \in B /\ v[id].parent \in Ids /\ v2[v[id].parent] = Absent
      BY <1>5, <2>3
    <3>2. /\ \A i \in DOMAIN s : s[i].id = id /\ s[i].op = "new" =>
               s[i].widget.parent = v[id].parent
          /\ Had(n, f, s, id) => w[id].parent = v[id].parent
      BY <2>3 DEF View, WantedStays
    <3>3. CASE Pending(s, id)
      <4>1. PICK i \in DOMAIN s : s[i].op = "new" /\ s[i].id = id
        BY <3>3 DEF Pending
      <4>2. i \in DOMAIN t /\ t[i] = s[i] /\ s[i].widget.parent = v[id].parent
        BY <1>3, <3>2, <4>1
      <4> QED BY <3>1, <4>1, <4>2
    <3>4. CASE ~ Pending(s, id)
      BY <1>3, <3>1, <3>2, <3>4 DEF Had
    <3> QED BY <3>3, <3>4
  <2> QED BY <2>1, <2>2, <2>3
<1>12. ItemsAreOrdered(n, f, w, l, t)
  <2>1. \A list \in Ids : \A k \in DOMAIN l[list] : l[list][k] \in Ids
    BY <1>1
  <2> QED BY <1>3, <2>1 DEF View, ItemsAreOrdered
<1>13. ItemsAreListed(n, v2, f, w, l, t)
  <2> SUFFICES ASSUME NEW id \in Ids, Had(n, f, t, id), v2[id] # Absent,
                      v2[id].kind = "ListItem", f < v2[id].parent, v2[v2[id].parent] # Absent
               PROVE  \E k \in DOMAIN l[v2[id].parent] : l[v2[id].parent][k] = id
    BY DEF ItemsAreListed
  <2>1. v[id] \in Widgets /\ v[id].parent < id /\ v2[id] = v[id]
    BY <1>1, <1>5 DEF WidgetsAreOrdered
  <2>2. v[id].parent \in Ids
    BY <1>1, <2>1 DEF Widgets, Ids, NoParent
  <2>3. v[v[id].parent] # Absent
    BY <1>5, <2>1, <2>2
  <2> QED BY <1>3, <1>5, <2>1, <2>3 DEF View, ItemsAreListed
<1> QED BY <1>3, <1>6, <1>7, <1>8, <1>9, <1>10, <1>11, <1>12, <1>13 DEF View

\* Only whether widget x is visible changes.
OnlyVisibleChanges(v, x, b, v2) ==
  /\ v2 \in [Ids -> Widgets \cup {Absent}]
  /\ \A id \in Ids : v2[id] = Absent <=> v[id] = Absent
  /\ \A id \in Ids : id # x => v2[id] = v[id]
  /\ \A id \in Ids : v[id] # Absent =>
       /\ v2[id].kind = v[id].kind /\ v2[id].parent = v[id].parent
       /\ v2[id].visible = IF id = x THEN b ELSE v[id].visible

LEMMA ShownWidgets ==
  ASSUME NEW v \in [Ids -> Widgets \cup {Absent}], NEW x \in Ids, NEW b \in BOOLEAN,
         NEW v2, v2 = IF v[x] = Absent THEN v ELSE [v EXCEPT ![x].visible = b]
  PROVE  OnlyVisibleChanges(v, x, b, v2)
<1>1. CASE v[x] = Absent
  BY <1>1 DEF OnlyVisibleChanges
<1>2. CASE v[x] # Absent
  <2>1. v[x] \in Widgets /\ v2 = [v EXCEPT ![x] = [v[x] EXCEPT !.visible = b]]
    BY <1>2
  <2> DEFINE u == [v[x] EXCEPT !.visible = b]
  <2>2. /\ u \in Widgets /\ u.kind = v[x].kind /\ u.parent = v[x].parent /\ u.visible = b
    BY <2>1 DEF Widgets
  <2>3. u # Absent
    BY <2>2 DEF Widgets, Absent, Kinds
  <2> HIDE DEF u
  <2>4. v2 = [v EXCEPT ![x] = u]
    BY <2>1 DEF u
  <2> QED BY <1>2, <2>2, <2>3, <2>4 DEF OnlyVisibleChanges
<1> QED BY <1>1, <1>2

LEMMA ShowView ==
  ASSUME NEW n, NEW v, NEW f, NEW w, NEW l, NEW s,
         WidgetsAreOrdered(n, v), View(n, v, f, w, l, s),
         NEW x \in Ids, x <= n, NEW b \in BOOLEAN,
         NEW v2, v2 = IF v[x] = Absent THEN v ELSE [v EXCEPT ![x].visible = b],
         NEW t, t = Append(s, SetVisible(x, b))
  PROVE  WidgetsAreOrdered(n, v2) /\ View(n, v2, f, w, l, t)
<1> DEFINE e == SetVisible(x, b)
           m == Len(s) + 1
<1>1. /\ n \in Nat /\ f \in 0 .. n
      /\ v \in [Ids -> Widgets \cup {Absent}] /\ w \in [Ids -> Widgets \cup {Absent}]
      /\ l \in [Ids -> Seq(Ids)] /\ s \in Seq(Packets)
  BY ServerGuiAssumption DEF WidgetsAreOrdered, View, ViewTypeOK, ServerGuiAssumption
<1>2. e \in Packets /\ e.op = "visible" /\ e.id = x /\ e.value = b
  BY DEF SetVisible, Packets
<1> HIDE DEF e
<1>3. /\ t \in Seq(Packets) /\ m \in Nat /\ DOMAIN t = DOMAIN s \cup {m} /\ t[m] = e
      /\ \A i \in DOMAIN s : i \in Nat /\ i < m /\ t[i] = s[i]
      /\ \A id \in Ids : Pending(t, id) <=> Pending(s, id)
      /\ \A id \in Ids : Had(n, f, t, id) <=> Had(n, f, s, id)
      /\ NewsInOrder(n, f, t)
  <2>1. NewsInOrder(n, f, s) /\ t = Append(s, e)
    BY DEF View, e
  <2>2. s \in Seq(Packets) /\ e \in Packets /\ e.op # "new" /\ e.id <= n
    BY <1>1, <1>2
  <2>3. NewsInOrder(n, f, t)
    BY <2>1, <2>2, SaidInOrder
  <2>4. t \in Seq(Packets) /\ m \in Nat /\ DOMAIN t = DOMAIN s \cup {m} /\ t[m] = e
    BY <2>1, <2>2, SaidOfWidget
  <2>5. \A i \in DOMAIN s : i \in Nat /\ i < m /\ t[i] = s[i]
    BY <2>1, <2>2, SaidOfWidget
  <2>6. \A id \in Ids : Pending(t, id) <=> Pending(s, id)
    BY <2>1, <2>2, SaidOfWidget
  <2>7. \A id \in Ids : Had(n, f, t, id) <=> Had(n, f, s, id)
    BY <2>1, <2>2, SaidOfWidget
  <2> QED BY ONLY <2>3, <2>4, <2>5, <2>6, <2>7
<1> HIDE DEF m
<1>4. \A i \in DOMAIN t : (i \in DOMAIN s /\ t[i] = s[i]) \/ (i = m /\ t[i] = e)
  BY <1>3
<1>5. /\ v2 \in [Ids -> Widgets \cup {Absent}]
      /\ \A id \in Ids : v2[id] = Absent <=> v[id] = Absent
      /\ \A id \in Ids : id # x => v2[id] = v[id]
      /\ \A id \in Ids : v[id] # Absent =>
           /\ v2[id].kind = v[id].kind /\ v2[id].parent = v[id].parent
           /\ v2[id].visible = IF id = x THEN b ELSE v[id].visible
  <2>1. OnlyVisibleChanges(v, x, b, v2)
    BY <1>1, ShownWidgets
  <2> QED BY <2>1 DEF OnlyVisibleChanges
<1>6. WidgetsAreOrdered(n, v2)
  BY <1>5 DEF WidgetsAreOrdered
<1>7. ViewTypeOK(n, f, w, l, t)
  BY <1>1, <1>3 DEF ViewTypeOK
<1>8. OnlyHadIsShown(n, f, w, t)
  BY <1>3 DEF View, OnlyHadIsShown
<1>9. WantedStays(n, v2, f, w, t)
  BY <1>2, <1>3, <1>4, <1>5 DEF View, WantedStays
<1>10. WantedIsVisible(n, v2, f, w, t)
  <2> SUFFICES ASSUME NEW id \in Ids, f < id, v2[id] # Absent
               PROVE  /\ \A i \in DOMAIN t : IsLastWord(t, i, id) => t[i].value = v2[id].visible
                      /\ (\A i \in DOMAIN t : t[i].id = id => t[i].op # "visible") =>
                           v2[id].visible = IF Pending(t, id) THEN TRUE ELSE w[id].visible
    BY DEF WantedIsVisible
  <2>1. CASE id = x
    <3>1. \A i \in DOMAIN t : IsLastWord(t, i, id) => i = m
      <4> SUFFICES ASSUME NEW i \in DOMAIN t, IsLastWord(t, i, id) PROVE i = m
        OBVIOUS
      <4>1. m <= i
        BY <1>2, <1>3, <2>1 DEF IsLastWord
      <4> QED BY <1>3, <4>1
    <3>2. v2[id].visible = b
      BY <1>5, <2>1
    <3>3. \A i \in DOMAIN t : IsLastWord(t, i, id) => t[i].value = v2[id].visible
      BY <1>2, <1>3, <3>1, <3>2
    <3>4. m \in DOMAIN t /\ t[m].id = id /\ t[m].op = "visible"
      BY <1>2, <1>3, <2>1
    <3> QED BY <3>3, <3>4
  <2>2. CASE id # x
    <3>1. \A i \in DOMAIN t : IsLastWord(t, i, id) => i \in DOMAIN s /\ IsLastWord(s, i, id)
      BY <1>2, <1>3, <2>2 DEF IsLastWord
    <3>2. /\ \A i \in DOMAIN s : IsLastWord(s, i, id) => s[i].value = v[id].visible
          /\ (\A i \in DOMAIN s : s[i].id = id => s[i].op # "visible") =>
               v[id].visible = IF Pending(s, id) THEN TRUE ELSE w[id].visible
      BY <1>5 DEF View, WantedIsVisible
    <3>3. (\A i \in DOMAIN t : t[i].id = id => t[i].op # "visible") =>
            \A i \in DOMAIN s : s[i].id = id => s[i].op # "visible"
      BY <1>3
    <3>4. v2[id] = v[id] /\ (Pending(t, id) <=> Pending(s, id))
      BY <1>3, <1>5, <2>2
    <3> QED BY <1>3, <3>1, <3>2, <3>3, <3>4
  <2> QED BY <2>1, <2>2
<1>11. UnwantedGoes(n, v2, f, w, t)
  <2> SUFFICES ASSUME NEW id \in Ids, f < id, id <= n, v2[id] = Absent
               PROVE  \/ \E i \in DOMAIN t : t[i].op = "remove" /\ t[i].id = id
                      \/ /\ ~ Pending(t, id)
                         /\ w[id] = Absent \/ (w[id].parent \in Ids /\ v2[w[id].parent] = Absent)
                      \/ \E i \in DOMAIN t :
                           /\ t[i].op = "new" /\ t[i].id = id
                           /\ t[i].widget.parent \in Ids /\ v2[t[i].widget.parent] = Absent
    BY DEF UnwantedGoes
  <2>1. \/ \E i \in DOMAIN s : s[i].op = "remove" /\ s[i].id = id
        \/ /\ ~ Pending(s, id)
           /\ w[id] = Absent \/ (w[id].parent \in Ids /\ v[w[id].parent] = Absent)
        \/ \E i \in DOMAIN s : /\ s[i].op = "new" /\ s[i].id = id
                               /\ s[i].widget.parent \in Ids /\ v[s[i].widget.parent] = Absent
    BY <1>5 DEF View, UnwantedGoes
  <2> QED BY <1>3, <1>5, <2>1
<1>12. ItemsAreOrdered(n, f, w, l, t)
  <2>1. \A list \in Ids : \A k \in DOMAIN l[list] : l[list][k] \in Ids
    BY <1>1
  <2> QED BY <1>3, <2>1 DEF View, ItemsAreOrdered
<1>13. ItemsAreListed(n, v2, f, w, l, t)
  <2> SUFFICES ASSUME NEW id \in Ids, Had(n, f, t, id), v2[id] # Absent,
                      v2[id].kind = "ListItem", f < v2[id].parent, v2[v2[id].parent] # Absent
               PROVE  \E k \in DOMAIN l[v2[id].parent] : l[v2[id].parent][k] = id
    BY DEF ItemsAreListed
  <2>1. /\ v[id] # Absent /\ v[id] \in Widgets /\ v[id].parent < id
        /\ v2[id].kind = v[id].kind /\ v2[id].parent = v[id].parent
    BY <1>1, <1>5 DEF WidgetsAreOrdered
  <2>2. v[id].parent \in Ids
    BY <1>1, <2>1 DEF Widgets, Ids, NoParent
  <2>3. v[v[id].parent] # Absent
    BY <1>5, <2>1, <2>2
  <2> QED BY <1>3, <1>5, <2>1, <2>3 DEF View, ItemsAreListed
<1> QED BY <1>3, <1>6, <1>7, <1>8, <1>9, <1>10, <1>11, <1>12, <1>13 DEF View

-----------------------------------------------------------------------------
(* A client reads its next packet.                                         *)

LEMMA AfterTail ==
  ASSUME NEW T, NEW s \in Seq(T), s # <<>>, NEW e, e = Head(s), NEW r, r = Tail(s)
  PROVE  /\ e \in T /\ r \in Seq(T) /\ 1 \in DOMAIN s /\ s[1] = e
         /\ \A i \in DOMAIN r : i \in Nat /\ i > 0 /\ i + 1 \in DOMAIN s /\ r[i] = s[i + 1]
         /\ \A i \in DOMAIN s : i \in Nat /\ i > 0 /\ (i = 1 \/ i - 1 \in DOMAIN r)
         /\ \A i \in DOMAIN s : i # 1 => r[i - 1] = s[i]
<1>1. /\ Len(s) \in Nat \ {0} /\ DOMAIN s = 1 .. Len(s) /\ e \in T /\ e = s[1]
  BY EmptySeq, LenProperties, HeadTailProperties
<1>2. /\ r \in Seq(T) /\ Len(r) = Len(s) - 1 /\ DOMAIN r = 1 .. Len(s) - 1
      /\ \A i \in 1 .. Len(s) - 1 : r[i] = s[i + 1]
  BY <1>1, LenProperties, HeadTailProperties
<1>3. \A i \in DOMAIN r : i \in Nat /\ i > 0 /\ i + 1 \in DOMAIN s /\ r[i] = s[i + 1]
  BY <1>1, <1>2
<1>4. \A i \in DOMAIN s : i \in Nat /\ i > 0 /\ (i = 1 \/ i - 1 \in DOMAIN r)
  BY <1>1, <1>2
<1>5. ASSUME NEW i \in DOMAIN s, i # 1 PROVE r[i - 1] = s[i]
  <2>1. i - 1 \in 1 .. Len(s) - 1 /\ (i - 1) + 1 = i
    BY <1>1, <1>5
  <2> QED BY <1>2, <2>1
<1> QED BY <1>1, <1>2, <1>3, <1>4, <1>5

LEMMA HeadTailOfConcat ==
  ASSUME NEW T, NEW s \in Seq(T), NEW t \in Seq(T), s # <<>>
  PROVE  Head(s \o t) = Head(s) /\ Tail(s \o t) = Tail(s) \o t
<1>1. /\ Len(s) \in Nat \ {0} /\ Len(t) \in Nat
      /\ Tail(s) \in Seq(T) /\ Len(Tail(s)) = Len(s) - 1
      /\ \A i \in 1 .. Len(s) - 1 : Tail(s)[i] = s[i + 1]
  BY EmptySeq, LenProperties, HeadTailProperties
<1>2. /\ s \o t \in Seq(T) /\ Len(s \o t) = Len(s) + Len(t) /\ s \o t # <<>>
      /\ \A i \in 1 .. Len(s) + Len(t) : (s \o t)[i] = IF i <= Len(s) THEN s[i] ELSE t[i - Len(s)]
  BY ConcatProperties, ConcatEqualIffEmpty
<1> DEFINE a == Tail(s \o t)
           b == Tail(s) \o t
<1>3. /\ a \in Seq(T) /\ Len(a) = Len(s) + Len(t) - 1
      /\ \A i \in 1 .. Len(s) + Len(t) - 1 : a[i] = (s \o t)[i + 1]
  BY <1>1, <1>2, HeadTailProperties
<1>4. /\ b \in Seq(T) /\ Len(b) = Len(s) - 1 + Len(t)
      /\ \A i \in 1 .. Len(s) - 1 + Len(t) :
           b[i] = IF i <= Len(s) - 1 THEN Tail(s)[i] ELSE t[i - (Len(s) - 1)]
  BY <1>1, ConcatProperties
<1> HIDE DEF a, b
<1>5. ASSUME NEW i \in 1 .. Len(a) PROVE a[i] = b[i]
  <2>1. /\ i \in 1 .. Len(s) + Len(t) - 1 /\ i + 1 \in 1 .. Len(s) + Len(t)
        /\ i + 1 <= Len(s) <=> i <= Len(s) - 1
    BY <1>1, <1>3
  <2>2. CASE i <= Len(s) - 1
    BY <1>1, <1>2, <1>3, <1>4, <2>1, <2>2
  <2>3. CASE ~ i <= Len(s) - 1
    <3>1. (i + 1) - Len(s) = i - (Len(s) - 1)
      BY <1>1, <2>1
    <3> QED BY <1>1, <1>2, <1>3, <1>4, <2>1, <2>3, <3>1
  <2> QED BY <2>2, <2>3
<1>6. a = b
  <2>1. Len(a) = Len(b)
    BY <1>1, <1>3, <1>4
  <2> QED BY <1>3, <1>4, <1>5, <2>1, SeqEqual
<1>7. Head(s \o t) = Head(s)
  BY <1>1, <1>2
<1> QED BY <1>6, <1>7 DEF a, b

LEMMA TailHad ==
  ASSUME NEW n, NEW f, NEW s \in Seq(Packets), NewsInOrder(n, f, s), s # <<>>,
         NEW e, e = Head(s), NEW r, r = Tail(s)
  PROVE  /\ \A id \in Ids : Pending(s, id) <=> Pending(r, id) \/ (e.op = "new" /\ e.id = id)
         /\ e.op = "new" => ~ Pending(r, e.id)
         /\ e.op # "new" => ~ Pending(s, e.id)
         /\ \A id \in Ids :
              Had(n, f, r, id) <=> Had(n, f, s, id) \/ (e.op = "new" /\ e.id = id)
<1>1. /\ e \in Packets /\ 1 \in DOMAIN s /\ s[1] = e
      /\ \A i \in DOMAIN r : i \in Nat /\ i > 0 /\ i + 1 \in DOMAIN s /\ r[i] = s[i + 1]
      /\ \A i \in DOMAIN s : i \in Nat /\ i > 0 /\ (i = 1 \/ i - 1 \in DOMAIN r)
      /\ \A i \in DOMAIN s : i # 1 => r[i - 1] = s[i]
  BY AfterTail
<1>2. ASSUME NEW id \in Ids
      PROVE  Pending(s, id) <=> Pending(r, id) \/ (e.op = "new" /\ e.id = id)
  <2>1. ASSUME Pending(s, id) PROVE Pending(r, id) \/ (e.op = "new" /\ e.id = id)
    <3>1. PICK i \in DOMAIN s : s[i].op = "new" /\ s[i].id = id
      BY <2>1 DEF Pending
    <3>2. CASE i = 1
      BY <1>1, <3>1, <3>2
    <3>3. CASE i # 1
      <4>1. i - 1 \in DOMAIN r /\ r[i - 1] = s[i]
        BY <1>1, <3>3
      <4> QED BY <3>1, <4>1 DEF Pending
    <3> QED BY <3>2, <3>3
  <2>2. Pending(r, id) => Pending(s, id)
    BY <1>1 DEF Pending
  <2>3. e.op = "new" /\ e.id = id => Pending(s, id)
    BY <1>1 DEF Pending
  <2> QED BY <2>1, <2>2, <2>3
<1>3. ASSUME e.op = "new", Pending(r, e.id) PROVE FALSE
  <2>1. PICK i \in DOMAIN r : r[i].op = "new" /\ r[i].id = e.id
    BY <1>3 DEF Pending
  <2>2. i + 1 \in DOMAIN s /\ s[i + 1].op = "new" /\ s[i + 1].id = e.id /\ 1 < i + 1
    BY <1>1, <2>1
  <2>3. s[1].id < s[i + 1].id
    BY <1>1, <1>3, <2>2 DEF NewsInOrder
  <2>4. e.id \in Int
    BY <1>1 DEF Packets, Ids
  <2> QED BY <1>1, <2>2, <2>3, <2>4
<1>4. ASSUME e.op # "new", Pending(s, e.id) PROVE FALSE
  <2>1. PICK i \in DOMAIN s : s[i].op = "new" /\ s[i].id = e.id
    BY <1>4 DEF Pending
  <2>2. i < 1
    BY <1>1, <1>4, <2>1 DEF NewsInOrder
  <2> QED BY <1>1, <2>2
<1>5. e.op = "new" => f < e.id /\ e.id <= n
  BY <1>1 DEF NewsInOrder
<1>6. ASSUME NEW id \in Ids
      PROVE  Had(n, f, r, id) <=> Had(n, f, s, id) \/ (e.op = "new" /\ e.id = id)
  BY <1>2, <1>3, <1>5 DEF Had
<1> QED BY <1>2, <1>3, <1>4, <1>6

LEMMA TailInOrder ==
  ASSUME NEW n, NEW f, NEW s \in Seq(Packets), NewsInOrder(n, f, s), s # <<>>,
         NEW e, e = Head(s), NEW r, r = Tail(s)
  PROVE  NewsInOrder(n, f, r)
<1>1. 1 \in DOMAIN s /\ s[1] = e
  BY AfterTail
<1>2. \A i \in DOMAIN r : i \in Nat /\ i > 0 /\ i + 1 \in DOMAIN s /\ r[i] = s[i + 1]
  BY AfterTail
<1>3. \A id \in Ids : Had(n, f, r, id) => Had(n, f, s, id) \/ (e.op = "new" /\ e.id = id)
  BY TailHad
<1>4. \A i \in DOMAIN r : r[i].id <= n
  BY <1>2 DEF NewsInOrder
<1>5. \A i \in DOMAIN r : r[i].op = "new" =>
        /\ f < r[i].id
        /\ r[i].widget.visible /\ r[i].widget.parent < r[i].id
        /\ r[i].widget.kind = "ListItem" => r[i].widget.parent # NoParent
  BY <1>2 DEF NewsInOrder
<1>6. \A i, j \in DOMAIN r : r[i].op = "new" /\ r[j].op = "new" /\ i < j => r[i].id < r[j].id
  <2> SUFFICES ASSUME NEW i \in DOMAIN r, NEW j \in DOMAIN r,
                      r[i].op = "new", r[j].op = "new", i < j
               PROVE  r[i].id < r[j].id
    OBVIOUS
  <2>1. i + 1 < j + 1 /\ i + 1 \in DOMAIN s /\ j + 1 \in DOMAIN s
    BY <1>2
  <2> QED BY <1>2, <2>1 DEF NewsInOrder
<1>7. \A i \in DOMAIN r, id \in Ids : r[i].op = "new" /\ Had(n, f, r, id) => id < r[i].id
  <2> SUFFICES ASSUME NEW i \in DOMAIN r, NEW id \in Ids, r[i].op = "new", Had(n, f, r, id)
               PROVE  id < r[i].id
    OBVIOUS
  <2>1. i + 1 \in DOMAIN s /\ s[i + 1].op = "new" /\ r[i] = s[i + 1] /\ 1 < i + 1
    BY <1>2
  <2>2. CASE Had(n, f, s, id)
    BY <2>1, <2>2 DEF NewsInOrder
  <2>3. CASE e.op = "new" /\ e.id = id
    BY <1>1, <2>1, <2>3 DEF NewsInOrder
  <2> QED BY <1>3, <2>2, <2>3
<1>8. \A i, j \in DOMAIN r : r[i].op = "new" /\ r[j].op # "new" /\ r[i].id = r[j].id => i < j
  <2> SUFFICES ASSUME NEW i \in DOMAIN r, NEW j \in DOMAIN r,
                      r[i].op = "new", r[j].op # "new", r[i].id = r[j].id
               PROVE  i < j
    OBVIOUS
  <2>1. i \in Nat /\ j \in Nat /\ i + 1 \in DOMAIN s /\ j + 1 \in DOMAIN s
    BY <1>2
  <2>2. i + 1 < j + 1
    BY <1>2, <2>1 DEF NewsInOrder
  <2> QED BY <2>1, <2>2
<1> QED BY <1>4, <1>5, <1>6, <1>7, <1>8 DEF NewsInOrder

\* What packet e makes of widgets w.
Changes(e, w, w2) ==
  /\ \A id \in Ids : id # e.id => w2[id] = w[id]
  /\ e.op = "new" => w2[e.id] = e.widget
  /\ e.op = "remove" => w2[e.id] = Absent
  /\ e.op = "visible" =>
       IF w[e.id] = Absent THEN w2[e.id] = Absent
       ELSE /\ w2[e.id] # Absent /\ w2[e.id].visible = e.value
            /\ w2[e.id].kind = w[e.id].kind /\ w2[e.id].parent = w[e.id].parent

LEMMA ReadWidgets ==
  ASSUME NEW n, NEW v, NEW f, NEW w, NEW l, NEW s,
         WidgetsAreOrdered(n, v), View(n, v, f, w, l, s), s # <<>>,
         NEW e, e = Head(s), NEW r, r = Tail(s),
         NEW w2 \in [Ids -> Widgets \cup {Absent}], Changes(e, w, w2)
  PROVE  /\ NewsInOrder(n, f, r) /\ OnlyHadIsShown(n, f, w2, r)
         /\ WantedStays(n, v, f, w2, r) /\ WantedIsVisible(n, v, f, w2, r)
         /\ UnwantedGoes(n, v, f, w2, r)
<1>1. /\ n \in Nat /\ f \in 0 .. n
      /\ v \in [Ids -> Widgets \cup {Absent}] /\ w \in [Ids -> Widgets \cup {Absent}]
      /\ s \in Seq(Packets) /\ NewsInOrder(n, f, s)
  BY ServerGuiAssumption DEF WidgetsAreOrdered, View, ViewTypeOK, ServerGuiAssumption
<1>2. /\ e \in Packets /\ 1 \in DOMAIN s /\ s[1] = e
      /\ \A i \in DOMAIN r : i \in Nat /\ i > 0 /\ i + 1 \in DOMAIN s /\ r[i] = s[i + 1]
      /\ \A i \in DOMAIN s : i \in Nat /\ i > 0 /\ (i = 1 \/ i - 1 \in DOMAIN r)
      /\ \A i \in DOMAIN s : i # 1 => r[i - 1] = s[i]
  BY <1>1, AfterTail
<1>3. /\ \A id \in Ids : Pending(s, id) <=> Pending(r, id) \/ (e.op = "new" /\ e.id = id)
      /\ e.op = "new" => ~ Pending(r, e.id)
      /\ e.op # "new" => ~ Pending(s, e.id)
      /\ \A id \in Ids : Had(n, f, r, id) <=> Had(n, f, s, id) \/ (e.op = "new" /\ e.id = id)
  <2>1. \A id \in Ids : Pending(s, id) <=> Pending(r, id) \/ (e.op = "new" /\ e.id = id)
    BY <1>1, e = Head(s), r = Tail(s), s # <<>>, TailHad, Zenon
  <2>2. e.op = "new" => ~ Pending(r, e.id)
    BY <1>1, TailHad
  <2>3. e.op # "new" => ~ Pending(s, e.id)
    BY <1>1, TailHad
  <2>4. \A id \in Ids : Had(n, f, r, id) <=> Had(n, f, s, id) \/ (e.op = "new" /\ e.id = id)
    BY <1>1, TailHad
  <2> QED BY ONLY <2>1, <2>2, <2>3, <2>4
<1>4. NewsInOrder(n, f, r)
  BY <1>1, TailInOrder
<1>5. /\ e.id \in Ids /\ e.id <= n /\ e.op \in {"new", "remove", "visible"}
      /\ e.op = "new" => /\ e.widget \in Widgets /\ e.widget.visible /\ f < e.id
                         /\ e.widget.parent < e.id
  BY <1>1, <1>2 DEF NewsInOrder, Packets
<1>6. \A x \in Widgets : x # Absent
  BY DEF Widgets, Absent, Kinds
<1>7. OnlyHadIsShown(n, f, w2, r)
  <2> SUFFICES ASSUME NEW id \in Ids, w2[id] # Absent
               PROVE  Had(n, f, r, id) /\ w2[id].parent < id
    BY DEF OnlyHadIsShown
  <2>1. w[id] # Absent => Had(n, f, s, id) /\ w[id].parent < id
    BY DEF View, OnlyHadIsShown
  <2>2. CASE id # e.id
    BY <1>3, <2>1, <2>2 DEF Changes
  <2>3. CASE id = e.id
    BY <1>3, <1>5, <2>1, <2>3 DEF Changes
  <2> QED BY <2>2, <2>3
<1>8. WantedStays(n, v, f, w2, r)
  <2> SUFFICES ASSUME NEW id \in Ids, f < id, v[id] # Absent
               PROVE  /\ \A i \in DOMAIN r : r[i].id = id => r[i].op # "remove"
                      /\ \A i \in DOMAIN r : r[i].id = id /\ r[i].op = "new" =>
                           r[i].widget.kind = v[id].kind /\ r[i].widget.parent = v[id].parent
                      /\ Had(n, f, r, id) =>
                           /\ w2[id] # Absent
                           /\ w2[id].kind = v[id].kind /\ w2[id].parent = v[id].parent
    BY DEF WantedStays
  <2>1. /\ \A i \in DOMAIN s : s[i].id = id => s[i].op # "remove"
        /\ \A i \in DOMAIN s : s[i].id = id /\ s[i].op = "new" =>
             s[i].widget.kind = v[id].kind /\ s[i].widget.parent = v[id].parent
        /\ Had(n, f, s, id) => /\ w[id] # Absent
                               /\ w[id].kind = v[id].kind /\ w[id].parent = v[id].parent
    BY DEF View, WantedStays
  <2>2. ASSUME Had(n, f, r, id)
        PROVE  w2[id] # Absent /\ w2[id].kind = v[id].kind /\ w2[id].parent = v[id].parent
    <3>1. CASE e.op = "new" /\ e.id = id
      BY <1>2, <1>5, <1>6, <2>1, <3>1 DEF Changes
    <3>2. CASE Had(n, f, s, id) /\ e.id # id
      BY <2>1, <3>2 DEF Changes
    <3>3. CASE Had(n, f, s, id) /\ e.id = id /\ e.op # "new"
      BY <1>2, <1>5, <2>1, <3>3 DEF Changes
    <3> QED BY <1>3, <2>2, <3>1, <3>2, <3>3
  <2>3. \A i \in DOMAIN r : r[i].id = id => r[i].op # "remove"
    BY <1>2, <2>1
  <2>4. \A i \in DOMAIN r : r[i].id = id /\ r[i].op = "new" =>
          r[i].widget.kind = v[id].kind /\ r[i].widget.parent = v[id].parent
    BY <1>2, <2>1
  <2> QED BY <2>2, <2>3, <2>4
<1>9. WantedIsVisible(n, v, f, w2, r)
  <2> SUFFICES ASSUME NEW id \in Ids, f < id, v[id] # Absent
               PROVE  /\ \A i \in DOMAIN r : IsLastWord(r, i, id) => r[i].value = v[id].visible
                      /\ (\A i \in DOMAIN r : r[i].id = id => r[i].op # "visible") =>
                           v[id].visible = IF Pending(r, id) THEN TRUE ELSE w2[id].visible
    BY DEF WantedIsVisible
  <2>1. /\ \A i \in DOMAIN s : IsLastWord(s, i, id) => s[i].value = v[id].visible
        /\ (\A i \in DOMAIN s : s[i].id = id => s[i].op # "visible") =>
             v[id].visible = IF Pending(s, id) THEN TRUE ELSE w[id].visible
    BY DEF View, WantedIsVisible
  <2>2. ASSUME NEW i \in DOMAIN r, IsLastWord(r, i, id) PROVE r[i].value = v[id].visible
    <3>1. i \in Nat /\ i + 1 \in DOMAIN s /\ r[i] = s[i + 1]
      BY <1>2
    <3>2. ASSUME NEW j \in DOMAIN s, s[j].op = "visible" /\ s[j].id = id PROVE j <= i + 1
      <4>1. CASE j = 1
        BY <3>1, <4>1
      <4>2. CASE j # 1
        <5>1. j \in Nat /\ j - 1 \in DOMAIN r /\ r[j - 1] = s[j]
          BY <1>2, <4>2
        <5>2. j - 1 <= i
          BY <2>2, <3>2, <5>1 DEF IsLastWord
        <5> QED BY <3>1, <5>1, <5>2
      <4> QED BY <4>1, <4>2
    <3>3. IsLastWord(s, i + 1, id)
      BY <2>2, <3>1, <3>2 DEF IsLastWord
    <3> QED BY <2>1, <3>1, <3>3
  <2>3. ASSUME \A i \in DOMAIN r : r[i].id = id => r[i].op # "visible"
        PROVE  v[id].visible = IF Pending(r, id) THEN TRUE ELSE w2[id].visible
    <3>1. \A i \in DOMAIN s : s[i].id = id /\ s[i].op = "visible" => i = 1
      BY <1>2, <2>3
    <3>2. id <= n
      BY DEF WidgetsAreOrdered
    <3>3. CASE e.op = "visible" /\ e.id = id
      <4>1. IsLastWord(s, 1, id)
        BY <1>2, <3>1, <3>3 DEF IsLastWord
      <4>2. ~ Pending(r, id) /\ ~ Pending(s, id) /\ e.value = v[id].visible
        BY <1>2, <1>3, <2>1, <3>3, <4>1
      <4>3. w[id] # Absent
        BY <3>2, <4>2 DEF View, WantedStays, Had
      <4> QED BY <3>3, <4>2, <4>3 DEF Changes
    <3>4. CASE e.op = "new" /\ e.id = id
      <4>1. v[id].visible = TRUE
        BY <1>2, <1>3, <2>1, <3>1, <3>4
      <4>2. w2[id].visible = TRUE /\ ~ Pending(r, id)
        BY <1>3, <1>5, <3>4 DEF Changes, Widgets
      <4> QED BY <4>1, <4>2
    <3>5. CASE e.op # "visible" /\ ~ (e.op = "new" /\ e.id = id)
      <4>1. v[id].visible = IF Pending(s, id) THEN TRUE ELSE w[id].visible
        BY <1>2, <2>1, <3>1, <3>5
      <4>2. e.id # id
        BY <1>2, <1>5, <3>5 DEF View, WantedStays
      <4> QED BY <1>3, <3>5, <4>1, <4>2 DEF Changes
    <3>6. CASE e.op = "visible" /\ e.id # id
      <4>1. v[id].visible = IF Pending(s, id) THEN TRUE ELSE w[id].visible
        BY <1>2, <2>1, <3>1, <3>6
      <4> QED BY <1>3, <3>6, <4>1 DEF Changes
    <3> QED BY <3>3, <3>4, <3>5, <3>6
  <2> QED BY <2>2, <2>3
<1>10. UnwantedGoes(n, v, f, w2, r)
  <2> SUFFICES ASSUME NEW id \in Ids, f < id, id <= n, v[id] = Absent
               PROVE  \/ \E i \in DOMAIN r : r[i].op = "remove" /\ r[i].id = id
                      \/ /\ ~ Pending(r, id)
                         /\ w2[id] = Absent \/ (w2[id].parent \in Ids /\ v[w2[id].parent] = Absent)
                      \/ \E i \in DOMAIN r :
                           /\ r[i].op = "new" /\ r[i].id = id
                           /\ r[i].widget.parent \in Ids /\ v[r[i].widget.parent] = Absent
    BY DEF UnwantedGoes
  <2>1. CASE \E i \in DOMAIN s : s[i].op = "remove" /\ s[i].id = id
    <3>1. PICK i \in DOMAIN s : s[i].op = "remove" /\ s[i].id = id
      BY <2>1
    <3>2. CASE i = 1
      BY <1>2, <1>3, <3>1, <3>2 DEF Changes
    <3>3. CASE i # 1
      BY <1>2, <3>1, <3>3
    <3> QED BY <3>2, <3>3
  <2>2. CASE /\ ~ Pending(s, id)
             /\ w[id] = Absent \/ (w[id].parent \in Ids /\ v[w[id].parent] = Absent)
    <3>1. ~ Pending(r, id) /\ ~ (e.op = "new" /\ e.id = id)
      BY <1>3, <2>2
    <3>2. CASE e.id # id
      BY <2>2, <3>1, <3>2 DEF Changes
    <3>3. CASE e.id = id
      BY <1>5, <2>2, <3>1, <3>3 DEF Changes
    <3> QED BY <3>2, <3>3
  <2>3. CASE \E i \in DOMAIN s : /\ s[i].op = "new" /\ s[i].id = id
                                 /\ s[i].widget.parent \in Ids /\ v[s[i].widget.parent] = Absent
    <3>1. PICK i \in DOMAIN s : /\ s[i].op = "new" /\ s[i].id = id
                                /\ s[i].widget.parent \in Ids /\ v[s[i].widget.parent] = Absent
      BY <2>3
    <3>2. CASE i = 1
      BY <1>2, <1>3, <3>1, <3>2 DEF Changes
    <3>3. CASE i # 1
      BY <1>2, <3>1, <3>3
    <3> QED BY <3>2, <3>3
  <2> QED BY <2>1, <2>2, <2>3 DEF View, UnwantedGoes
<1> QED BY <1>4, <1>7, <1>8, <1>9, <1>10

\* What packet e makes of the lists' items l.
Enters(e, w, l, l2) ==
  IF e.op # "new" THEN l2 = l
  ELSE LET l1 == [l EXCEPT ![e.id] = <<>>] IN
       l2 = IF e.widget.kind = "ListItem" /\ w[e.widget.parent] # Absent
              THEN [l1 EXCEPT ![e.widget.parent] = Append(@, e.id)] ELSE l1

\* A new widget has no items, and is the last of its list's.
LEMMA EnterItem ==
  ASSUME NEW l \in [Ids -> Seq(Ids)], NEW x \in Ids, NEW p \in Ids, p # x,
         NEW l1, l1 = [l EXCEPT ![x] = <<>>],
         NEW l2, l2 = [l1 EXCEPT ![p] = Append(@, x)]
  PROVE  /\ l2 \in [Ids -> Seq(Ids)] /\ l2[x] = <<>> /\ l2[p] = Append(l[p], x)
         /\ \A list \in Ids : list # x /\ list # p => l2[list] = l[list]
<1>1. Append(l[p], x) \in Seq(Ids) /\ <<>> \in Seq(Ids)
  BY AppendProperties, EmptySeq
<1>2. l1 \in [Ids -> Seq(Ids)] /\ l1[x] = <<>> /\ \A list \in Ids : list # x => l1[list] = l[list]
  BY <1>1
<1> QED BY <1>1, <1>2

LEMMA ReadItems ==
  ASSUME NEW n, NEW v, NEW f, NEW w, NEW l, NEW s,
         WidgetsAreOrdered(n, v), View(n, v, f, w, l, s), s # <<>>,
         NEW e, e = Head(s), NEW r, r = Tail(s),
         NEW w2 \in [Ids -> Widgets \cup {Absent}], Changes(e, w, w2),
         NEW l2, Enters(e, w, l, l2)
  PROVE  /\ l2 \in [Ids -> Seq(Ids)]
         /\ ItemsAreOrdered(n, f, w2, l2, r) /\ ItemsAreListed(n, v, f, w2, l2, r)
<1>1. /\ n \in Nat /\ f \in 0 .. n /\ l \in [Ids -> Seq(Ids)]
      /\ v \in [Ids -> Widgets \cup {Absent}] /\ w \in [Ids -> Widgets \cup {Absent}]
      /\ s \in Seq(Packets) /\ NewsInOrder(n, f, s)
  BY ServerGuiAssumption DEF WidgetsAreOrdered, View, ViewTypeOK, ServerGuiAssumption
<1>2. e \in Packets /\ 1 \in DOMAIN s /\ s[1] = e
  BY <1>1, AfterTail
<1>3. \A id \in Ids : Had(n, f, r, id) <=> Had(n, f, s, id) \/ (e.op = "new" /\ e.id = id)
  BY <1>1, TailHad
<1>4. /\ e.id \in Ids /\ e.id <= n /\ e.op \in {"new", "remove", "visible"}
      /\ e.op = "new" =>
           /\ e.widget \in Widgets /\ f < e.id /\ e.widget.parent < e.id
           /\ e.widget.kind = "ListItem" => e.widget.parent \in Ids
  BY <1>1, <1>2 DEF NewsInOrder, Packets, Widgets
<1>5. \A list \in Ids : \A k \in DOMAIN l[list] : l[list][k] \in Ids
  BY <1>1
<1>6. \A list \in Ids :
        /\ \A j, k \in DOMAIN l[list] : j < k => l[list][j] < l[list][k]
        /\ \A k \in DOMAIN l[list] :
             /\ Had(n, f, s, l[list][k])
             /\ w[l[list][k]] # Absent =>
                  w[l[list][k]].kind = "ListItem" /\ w[l[list][k]].parent = list
  BY DEF View, ItemsAreOrdered
<1>7. CASE e.op # "new"
  <2>1. l2 = l /\ \A id \in Ids : Had(n, f, r, id) <=> Had(n, f, s, id)
    BY <1>3, <1>7 DEF Enters
  <2>2. \A id \in Ids : w2[id] # Absent =>
          w[id] # Absent /\ w2[id].kind = w[id].kind /\ w2[id].parent = w[id].parent
    BY <1>4, <1>7 DEF Changes
  <2>3. ItemsAreOrdered(n, f, w2, l2, r)
    BY <1>5, <1>6, <2>1, <2>2 DEF ItemsAreOrdered
  <2>4. ItemsAreListed(n, v, f, w2, l2, r)
    BY <2>1 DEF View, ItemsAreListed
  <2> QED BY <1>1, <2>1, <2>3, <2>4
<1>8. CASE e.op = "new"
  <2> DEFINE x == e.id
             p == e.widget.parent
             listed == e.widget.kind = "ListItem" /\ w[p] # Absent
  <2>1. listed => p \in Ids /\ p # x
    BY <1>4, <1>8 DEF Ids
  <2>2. /\ l2 \in [Ids -> Seq(Ids)] /\ l2[x] = <<>>
        /\ listed => l2[p] = Append(l[p], x)
        /\ \A list \in Ids : list # x /\ ~ (listed /\ list = p) => l2[list] = l[list]
    <3>1. CASE listed
      <4>1. l2 = [[l EXCEPT ![x] = <<>>] EXCEPT ![p] = Append(@, x)]
        BY <1>8, <3>1 DEF Enters
      <4>2. /\ l2 \in [Ids -> Seq(Ids)] /\ l2[x] = <<>> /\ l2[p] = Append(l[p], x)
            /\ \A list \in Ids : list # x /\ list # p => l2[list] = l[list]
        BY <1>1, <1>4, <2>1, <3>1, <4>1, EnterItem
      <4> QED BY <4>2, <3>1
    <3>2. CASE ~ listed
      <4>1. l2 = [l EXCEPT ![x] = <<>>]
        BY <1>8, <3>2 DEF Enters
      <4> QED BY <1>1, <1>4, <3>2, <4>1, EmptySeq
    <3> QED BY <3>1, <3>2
  <2>3. \A id \in Ids : Had(n, f, s, id) => id < x /\ id # x
    BY <1>2, <1>4, <1>1, <1>8 DEF NewsInOrder, Ids
  <2>4. x \in Ids /\ Had(n, f, r, x) /\ w2[x] = e.widget
    BY <1>3, <1>4, <1>8 DEF Changes
  <2>5. \A id \in Ids : id # x => w2[id] = w[id]
    BY DEF Changes
  <2>6. \A list \in Ids : \A k \in DOMAIN l[list] :
          /\ l[list][k] \in Ids /\ l[list][k] < x /\ Had(n, f, r, l[list][k])
          /\ w2[l[list][k]] = w[l[list][k]]
    BY <1>3, <1>5, <1>6, <2>3, <2>5
  <2> DEFINE m == Len(l[p]) + 1
  <2>7. ASSUME listed
        PROVE  /\ m \in Nat /\ DOMAIN l2[p] = DOMAIN l[p] \cup {m} /\ l2[p][m] = x
               /\ \A k \in DOMAIN l[p] : k \in Nat /\ k < m /\ l2[p][k] = l[p][k]
    <3>1. l[p] \in Seq(Ids) /\ x \in Ids /\ l2[p] = Append(l[p], x)
      BY <1>1, <2>1, <2>2, <2>4, <2>7
    <3> HIDE DEF x, p, listed
    <3>2. m \in Nat /\ DOMAIN l2[p] = DOMAIN l[p] \cup {m} /\ l2[p][m] = x
      BY <3>1, AfterAppend
    <3>3. \A k \in DOMAIN l[p] : k \in Nat /\ k < m /\ l2[p][k] = l[p][k]
      BY <3>1, AfterAppend
    <3> QED BY ONLY <3>2, <3>3
  <2> HIDE DEF m
  <2>8. ItemsAreOrdered(n, f, w2, l2, r)
    <3> SUFFICES ASSUME NEW list \in Ids
                 PROVE  /\ \A j, k \in DOMAIN l2[list] : j < k => l2[list][j] < l2[list][k]
                        /\ \A k \in DOMAIN l2[list] :
                             /\ Had(n, f, r, l2[list][k])
                             /\ w2[l2[list][k]] # Absent =>
                                  /\ w2[l2[list][k]].kind = "ListItem"
                                  /\ w2[l2[list][k]].parent = list
      BY DEF ItemsAreOrdered
    <3>1. CASE list = x
      <4>1. DOMAIN l2[list] = {}
        BY <2>2, <3>1, EmptySeq
      <4> QED BY <4>1
    <3>2. CASE list # x /\ listed /\ list = p
      <4>1. /\ m \in Nat /\ DOMAIN l2[p] = DOMAIN l[p] \cup {m} /\ l2[p][m] = x
            /\ \A k \in DOMAIN l[p] : k \in Nat /\ k < m /\ l2[p][k] = l[p][k]
        BY <2>7, <3>2
      <4> HIDE DEF listed
      <4>2. \A j, k \in DOMAIN l2[p] : j < k => l2[p][j] < l2[p][k]
        BY <1>6, <2>6, <3>2, <4>1
      <4>3. w2[x].kind = "ListItem" /\ w2[x].parent = p
        BY <2>4, <3>2 DEF listed
      <4>4. \A k \in DOMAIN l2[p] :
              /\ Had(n, f, r, l2[p][k])
              /\ w2[l2[p][k]] # Absent =>
                   w2[l2[p][k]].kind = "ListItem" /\ w2[l2[p][k]].parent = p
        BY <1>6, <2>4, <2>6, <3>2, <4>1, <4>3
      <4> QED BY <3>2, <4>2, <4>4
    <3>3. CASE list # x /\ ~ (listed /\ list = p)
      <4>1. l2[list] = l[list]
        BY <2>2, <3>3
      <4> QED BY <1>6, <2>6, <4>1
    <3> QED BY <3>1, <3>2, <3>3
  <2>9. ItemsAreListed(n, v, f, w2, l2, r)
    <3> SUFFICES ASSUME NEW id \in Ids, Had(n, f, r, id), v[id] # Absent,
                        v[id].kind = "ListItem", f < v[id].parent, v[v[id].parent] # Absent
                 PROVE  \E k \in DOMAIN l2[v[id].parent] : l2[v[id].parent][k] = id
      BY DEF ItemsAreListed
    <3> DEFINE list == v[id].parent
    <3>1. list \in Ids /\ list < id /\ list <= n
      <4>1. v[id] \in Widgets /\ list < id
        BY <1>1 DEF WidgetsAreOrdered
      <4>2. list \in Ids
        BY <1>1, <4>1 DEF Widgets, Ids, NoParent
      <4> QED BY <4>1, <4>2 DEF WidgetsAreOrdered
    <3>2. CASE id = x
      <4>1. e.widget.kind = "ListItem" /\ p = list
        BY <1>1, <1>2, <1>8, <3>2 DEF View, WantedStays, Had
      <4>2. ~ Pending(s, list)
        <5>1. ASSUME NEW i \in DOMAIN s, s[i].op = "new", s[i].id = list PROVE FALSE
          <6>1. i \in Nat /\ (i = 1 \/ 1 < i)
            BY <1>1, AfterTail
          <6>2. s[1].id = x /\ s[1].op = "new" /\ 1 \in DOMAIN s
            BY <1>2, <1>8
          <6>3. CASE 1 < i
            BY <1>1, <3>1, <3>2, <5>1, <6>2, <6>3 DEF NewsInOrder, Ids
          <6>4. CASE i = 1
            BY <3>1, <3>2, <5>1, <6>2, <6>4 DEF Ids
          <6> QED BY <6>1, <6>3, <6>4
        <5> QED BY <5>1 DEF Pending
      <4>3. listed
        BY <3>1, <4>1, <4>2 DEF View, WantedStays, Had
      <4>4. m \in DOMAIN l2[p] /\ l2[p][m] = x
        BY <2>7, <4>3
      <4> QED BY <3>2, <4>1, <4>4
    <3>3. CASE id # x
      <4>1. Had(n, f, s, id) /\ id < x
        BY <1>3, <2>3, <3>3
      <4>2. PICK k \in DOMAIN l[list] : l[list][k] = id
        BY <4>1 DEF View, ItemsAreListed
      <4>3. list # x
        BY <2>4, <3>1, <4>1 DEF Ids
      <4>4. CASE listed /\ list = p
        <5>1. \A i \in DOMAIN l[p] : i \in DOMAIN l2[p] /\ l2[p][i] = l[p][i]
          BY <2>7, <4>4
        <5> QED BY <4>2, <4>4, <5>1
      <4>5. CASE ~ (listed /\ list = p)
        BY <2>2, <3>1, <4>2, <4>3, <4>5
      <4> QED BY <4>4, <4>5
    <3> QED BY <3>2, <3>3
  <2> QED BY <2>2, <2>8, <2>9
<1> QED BY <1>7, <1>8

LEMMA ApplyPacket ==
  ASSUME NEW g \in GuiStates, NEW e \in Packets, NEW g2, g2 = apply_packet(g, e)
  PROVE  /\ g2 \in GuiStates /\ g2.clicks = g.clicks
         /\ Changes(e, g.widgets, g2.widgets) /\ Enters(e, g.widgets, g.items, g2.items)
<1>1. /\ g.widgets \in [Ids -> Widgets \cup {Absent}] /\ g.items \in [Ids -> Seq(Ids)]
      /\ g.clicks \in Seq(Nat)
      /\ g = [widgets |-> g.widgets, items |-> g.items, clicks |-> g.clicks]
  BY DEF GuiStates
<1>2. e.id \in Ids /\ e.op \in {"new", "remove", "visible"}
  BY DEF Packets
<1>3. CASE e.op = "new"
  <2>1. e.widget \in Widgets
    BY <1>3 DEF Packets
  <2> DEFINE p == e.widget.parent
             listed == e.widget.kind = "ListItem" /\ g.widgets[p] # Absent
             l1 == [g.items EXCEPT ![e.id] = <<>>]
             l == IF listed THEN [l1 EXCEPT ![p] = Append(@, e.id)] ELSE l1
             w == [g.widgets EXCEPT ![e.id] = e.widget]
  <2>2. g2 = [g EXCEPT !.items = l, !.widgets = w]
    BY <1>3 DEF apply_packet, ApplyNew
  <2>3. w \in [Ids -> Widgets \cup {Absent}]
    BY <1>1, <1>2, <2>1
  <2>4. l \in [Ids -> Seq(Ids)]
    <3>1. l1 \in [Ids -> Seq(Ids)]
      BY <1>1, <1>2, EmptySeq
    <3> HIDE DEF l1
    <3>2. p \in Ids => Append(l1[p], e.id) \in Seq(Ids)
      BY <1>2, <3>1, AppendProperties
    <3>3. [l1 EXCEPT ![p] = Append(@, e.id)] \in [Ids -> Seq(Ids)]
      BY <3>1, <3>2
    <3> QED BY <3>1, <3>3
  <2>5. g2 \in GuiStates /\ g2.clicks = g.clicks /\ g2.widgets = w /\ g2.items = l
    <3> HIDE DEF l, w
    <3> QED BY <1>1, <2>2, <2>3, <2>4 DEF GuiStates
  <2>6. Changes(e, g.widgets, g2.widgets)
    BY <1>1, <1>2, <1>3, <2>5 DEF Changes
  <2>7. Enters(e, g.widgets, g.items, g2.items)
    BY <1>3, <2>5 DEF Enters
  <2> QED BY <2>5, <2>6, <2>7
<1>4. CASE e.op = "remove"
  <2> DEFINE w == [g.widgets EXCEPT ![e.id] = Absent]
  <2>1. g2 = [g EXCEPT !.widgets = w]
    BY <1>4 DEF apply_packet, ApplyRemove
  <2>2. w \in [Ids -> Widgets \cup {Absent}]
    BY <1>1, <1>2
  <2>3. g2 \in GuiStates /\ g2.clicks = g.clicks /\ g2.widgets = w /\ g2.items = g.items
    <3> HIDE DEF w
    <3> QED BY <1>1, <2>1, <2>2 DEF GuiStates
  <2> QED BY <1>1, <1>2, <1>4, <2>3 DEF Changes, Enters
<1>5. CASE e.op = "visible" /\ g.widgets[e.id] = Absent
  <2>1. g2 = g
    BY <1>5 DEF apply_packet, ApplyVisible
  <2> QED BY <1>5, <2>1 DEF Changes, Enters
<1>6. CASE e.op = "visible" /\ g.widgets[e.id] # Absent
  <2> DEFINE u == [g.widgets[e.id] EXCEPT !.visible = e.value]
             w == [g.widgets EXCEPT ![e.id] = u]
  <2>1. g2 = [g EXCEPT !.widgets = w]
    BY <1>6 DEF apply_packet, ApplyVisible
  <2>2. g.widgets[e.id] \in Widgets /\ e.value \in BOOLEAN
    BY <1>1, <1>2, <1>6 DEF Packets
  <2>3. /\ u \in Widgets /\ u.visible = e.value
        /\ u.kind = g.widgets[e.id].kind /\ u.parent = g.widgets[e.id].parent
    BY <2>2 DEF Widgets
  <2>4. u # Absent
    BY <2>3 DEF Widgets, Absent, Kinds
  <2> HIDE DEF u
  <2>5. w \in [Ids -> Widgets \cup {Absent}]
    BY <1>1, <1>2, <2>3
  <2>6. g2 \in GuiStates /\ g2.clicks = g.clicks /\ g2.widgets = w /\ g2.items = g.items
    <3> HIDE DEF w
    <3> QED BY <1>1, <2>1, <2>5 DEF GuiStates
  <2> QED BY <1>1, <1>2, <1>6, <2>3, <2>4, <2>6 DEF Changes, Enters
<1> QED BY <1>2, <1>3, <1>4, <1>5, <1>6

LEMMA ReadView ==
  ASSUME NEW n, NEW v, NEW f, NEW g \in GuiStates, NEW s,
         WidgetsAreOrdered(n, v), View(n, v, f, g.widgets, g.items, s), s # <<>>,
         NEW g2, g2 = apply_packet(g, Head(s))
  PROVE  View(n, v, f, g2.widgets, g2.items, Tail(s))
<1> DEFINE e == Head(s)
           r == Tail(s)
<1>1. s \in Seq(Packets) /\ f \in 0 .. n
  BY DEF View, ViewTypeOK
<1>2. e \in Packets /\ r \in Seq(Packets)
  BY <1>1, HeadTailProperties
<1>3. g2 \in GuiStates /\ Changes(e, g.widgets, g2.widgets)
      /\ Enters(e, g.widgets, g.items, g2.items)
  BY <1>2, ApplyPacket
<1>4. g2.widgets \in [Ids -> Widgets \cup {Absent}]
  BY <1>3 DEF GuiStates
<1>5. /\ NewsInOrder(n, f, r) /\ OnlyHadIsShown(n, f, g2.widgets, r)
      /\ WantedStays(n, v, f, g2.widgets, r) /\ WantedIsVisible(n, v, f, g2.widgets, r)
      /\ UnwantedGoes(n, v, f, g2.widgets, r)
  BY <1>3, <1>4, ReadWidgets
<1>6. /\ g2.items \in [Ids -> Seq(Ids)]
      /\ ItemsAreOrdered(n, f, g2.widgets, g2.items, r)
      /\ ItemsAreListed(n, v, f, g2.widgets, g2.items, r)
  BY <1>3, <1>4, ReadItems
<1> QED BY <1>1, <1>2, <1>4, <1>5, <1>6 DEF View, ViewTypeOK

\* Who comes when all has been announced has nothing to hear of.
LEMMA NewcomersView ==
  ASSUME NEW n, NEW v, WidgetsAreOrdered(n, v)
  PROVE  View(n, v, n, Nothing.widgets, Nothing.items, <<>>)
<1> DEFINE w == Nothing.widgets
           l == Nothing.items
<1>1. n \in Nat
  BY ServerGuiAssumption DEF WidgetsAreOrdered, ServerGuiAssumption
<1>2. <<>> \in Seq(Packets) /\ <<>> \in Seq(Ids) /\ DOMAIN <<>> = {}
  BY EmptySeq
<1>3. /\ w = [id \in Ids |-> Absent] /\ l = [id \in Ids |-> <<>>]
  BY DEF Nothing
<1> HIDE DEF w, l
<1>4. ViewTypeOK(n, n, w, l, <<>>)
  BY <1>1, <1>2, <1>3 DEF ViewTypeOK
<1>5. \A id \in Ids : ~ (n < id /\ id <= n) /\ ~ Had(n, n, <<>>, id)
  BY <1>1 DEF Had, Ids
<1>6. NewsInOrder(n, n, <<>>)
  BY <1>2 DEF NewsInOrder
<1>7. OnlyHadIsShown(n, n, w, <<>>)
  BY <1>3 DEF OnlyHadIsShown
<1>8. \A id \in Ids : v[id] # Absent => ~ n < id
  BY <1>5 DEF WidgetsAreOrdered
<1>9. WantedStays(n, v, n, w, <<>>) /\ WantedIsVisible(n, v, n, w, <<>>)
  BY <1>8 DEF WantedStays, WantedIsVisible
<1>10. UnwantedGoes(n, v, n, w, <<>>)
  BY <1>5 DEF UnwantedGoes
<1>11. ItemsAreOrdered(n, n, w, l, <<>>)
  BY <1>2, <1>3 DEF ItemsAreOrdered
<1>12. ItemsAreListed(n, v, n, w, l, <<>>)
  BY <1>5 DEF ItemsAreListed
<1> QED BY <1>4, <1>6, <1>7, <1>9, <1>10, <1>11, <1>12 DEF View, w, l

-----------------------------------------------------------------------------
(* The strengthening is inductive.                                         *)

LEMMA NothingIsThere ==
  /\ Nothing \in GuiStates /\ Nothing.clicks = <<>>
  /\ <<>> \in Seq(Packets) /\ <<>> \in Seq(Ids)
<1>1. <<>> \in Seq(Packets) /\ <<>> \in Seq(Ids)
  BY EmptySeq
<1> QED BY <1>1 DEF Nothing, GuiStates

LEMMA GuiStarts == Init => GuiInv
<1> SUFFICES ASSUME Init PROVE GuiInv
  OBVIOUS
<1>1. WidgetsAreOrdered(lastId, wanted)
  BY ServerGuiAssumption DEF Init, WidgetsAreOrdered, ServerGuiAssumption
<1>2. GuiTypeOK
  BY NothingIsThere DEF Init, GuiTypeOK
<1>3. View(0, wanted, 0, Nothing.widgets, Nothing.items, <<>>)
  BY <1>1, NewcomersView DEF Init
<1>4. EverybodyHasAView
  BY <1>3 DEF Init, EverybodyHasAView
<1> QED BY <1>1, <1>2, <1>4 DEF GuiInv

\* A call of the scripts is kept for those in the game and for the next to come.
LEMMA CallKeepsViews ==
  ASSUME GuiInv, NEW e \in Packets, Push(e), UNCHANGED <<sent, inGame, screen>>,
         lastId <= lastId', WidgetsAreOrdered(lastId, wanted)',
         \A f, w, l, s : View(lastId, wanted, f, w, l, s) =>
                           View(lastId', wanted', f, w, l, Append(s, e))
  PROVE  GuiInv'
<1>1. /\ queue' = Append(queue, e) /\ sent' = sent /\ inGame' = inGame
      /\ wire' = wire /\ gui' = gui /\ from' = from /\ leaves' = leaves
  BY DEF Push, screen
<1>2. queue \in Seq(Packets) /\ wire \in [Clients -> Seq(Packets)] /\ sent \in 0 .. lastId
  BY DEF GuiInv, GuiTypeOK
<1>3. lastId \in Nat /\ lastId' \in Nat
  BY ServerGuiAssumption DEF GuiInv, WidgetsAreOrdered, ServerGuiAssumption
<1>4. queue' \in Seq(Packets)
  BY <1>1, <1>2, AppendProperties
<1>5. GuiTypeOK'
  BY <1>1, <1>2, <1>3, <1>4 DEF GuiInv, GuiTypeOK
<1>6. View(lastId', wanted', sent', Nothing.widgets, Nothing.items, queue')
  BY <1>1 DEF GuiInv, EverybodyHasAView
<1>7. ASSUME NEW c \in Clients, leaves'[c] = 0, c \in inGame'
      PROVE  View(lastId', wanted', from'[c], gui'[c].widgets, gui'[c].items, wire'[c] \o queue')
  <2>1. View(lastId, wanted, from[c], gui[c].widgets, gui[c].items, wire[c] \o queue)
    BY <1>1, <1>7 DEF GuiInv, EverybodyHasAView
  <2>2. wire[c] \o Append(queue, e) = Append(wire[c] \o queue, e)
    BY <1>2, AppendToConcat
  <2> QED BY <1>1, <2>1, <2>2
<1>8. EverybodyHasAView'
  BY <1>1, <1>6, <1>7 DEF GuiInv, EverybodyHasAView
<1> QED BY <1>5, <1>8 DEF GuiInv

LEMMA CreateKeepsViews ==
  ASSUME GuiInv, NEW kind \in Kinds, NEW parent \in Ids \cup {NoParent}, Create(kind, parent)
  PROVE  GuiInv'
<1> DEFINE e == New(lastId + 1, kind, parent)
           v2 == [wanted EXCEPT ![lastId + 1] =
                    IF parent # NoParent /\ wanted[parent] = Absent
                      THEN Absent ELSE Widget(kind, parent)]
<1>1. /\ lastId' = lastId + 1 /\ wanted' = v2 /\ Push(e) /\ lastId < MaxWidgets
      /\ UNCHANGED <<sent, inGame, screen>>
  BY DEF Create
<1>2. lastId \in Nat /\ MaxWidgets \in Nat /\ lastId + 1 \in Ids
  BY <1>1, ServerGuiAssumption DEF GuiInv, WidgetsAreOrdered, ServerGuiAssumption, Ids
<1>3. parent <= lastId /\ (kind = "ListItem" => parent # NoParent)
  <2>1. parent \in Parents(kind)
    BY DEF Create
  <2>2. parent \in 1 .. lastId \/ (kind = "Window" /\ parent = NoParent)
    BY <2>1 DEF Parents
  <2> QED BY <1>2, <2>2 DEF NoParent
<1>4. e \in Packets
  BY <1>2 DEF New, Widget, Packets, Widgets
<1>5. WidgetsAreOrdered(lastId, wanted)
  BY DEF GuiInv
<1> HIDE DEF e, v2
<1>6. ASSUME NEW f, NEW w, NEW l, NEW s, View(lastId, wanted, f, w, l, s)
      PROVE  WidgetsAreOrdered(lastId + 1, v2) /\ View(lastId + 1, v2, f, w, l, Append(s, e))
  BY <1>1, <1>3, <1>5, <1>6, CreateView DEF e, v2
<1>7. WidgetsAreOrdered(lastId, wanted)'
  <2>1. View(lastId, wanted, sent, Nothing.widgets, Nothing.items, queue)
    BY DEF GuiInv, EverybodyHasAView
  <2>2. WidgetsAreOrdered(lastId + 1, v2)
    BY <1>6, <2>1
  <2> QED BY <1>1, <2>2
<1>8. \A f, w, l, s : View(lastId, wanted, f, w, l, s) =>
                        View(lastId', wanted', f, w, l, Append(s, e))
  BY <1>1, <1>6
<1> QED BY <1>1, <1>2, <1>4, <1>7, <1>8, CallKeepsViews

LEMMA DestroyKeepsViews ==
  ASSUME GuiInv, NEW id \in Ids, Destroy(id)
  PROVE  GuiInv'
<1> DEFINE e == Gone(id)
           v2 == [y \in Ids |-> IF y \in Below(id) THEN Absent ELSE wanted[y]]
<1>1. /\ lastId' = lastId /\ wanted' = v2 /\ Push(e) /\ id <= lastId
      /\ UNCHANGED <<sent, inGame, screen>>
  BY DEF Destroy, Call
<1>2. lastId \in Nat
  BY ServerGuiAssumption DEF GuiInv, WidgetsAreOrdered, ServerGuiAssumption
<1>3. /\ Below(id) \in SUBSET Ids /\ id \in Below(id)
      /\ \A y \in Below(id) : y = id \/ (wanted[y] # Absent /\ wanted[y].parent \in Below(id))
  BY BelowHangs
<1>4. e \in Packets
  BY DEF Gone, Packets
<1>5. WidgetsAreOrdered(lastId, wanted)
  BY DEF GuiInv
<1> HIDE DEF e, v2
<1>6. ASSUME NEW f, NEW w, NEW l, NEW s, View(lastId, wanted, f, w, l, s)
      PROVE  WidgetsAreOrdered(lastId, v2) /\ View(lastId, v2, f, w, l, Append(s, e))
  BY <1>1, <1>3, <1>5, <1>6, DestroyView DEF e, v2
<1>7. WidgetsAreOrdered(lastId, wanted)'
  <2>1. View(lastId, wanted, sent, Nothing.widgets, Nothing.items, queue)
    BY DEF GuiInv, EverybodyHasAView
  <2>2. WidgetsAreOrdered(lastId, v2)
    BY <1>6, <2>1
  <2> QED BY <1>1, <2>2
<1>8. \A f, w, l, s : View(lastId, wanted, f, w, l, s) =>
                        View(lastId', wanted', f, w, l, Append(s, e))
  BY <1>1, <1>6
<1> QED BY <1>1, <1>2, <1>4, <1>7, <1>8, CallKeepsViews

LEMMA ShowKeepsViews ==
  ASSUME GuiInv, NEW id \in Ids, NEW b \in BOOLEAN, Show(id, b)
  PROVE  GuiInv'
<1> DEFINE e == SetVisible(id, b)
           v2 == IF wanted[id] = Absent THEN wanted ELSE [wanted EXCEPT ![id].visible = b]
<1>1. /\ lastId' = lastId /\ wanted' = v2 /\ Push(e) /\ id <= lastId
      /\ UNCHANGED <<sent, inGame, screen>>
  BY DEF Show, Call
<1>2. lastId \in Nat
  BY ServerGuiAssumption DEF GuiInv, WidgetsAreOrdered, ServerGuiAssumption
<1>3. e \in Packets
  BY DEF SetVisible, Packets
<1>4. WidgetsAreOrdered(lastId, wanted)
  BY DEF GuiInv
<1> HIDE DEF e, v2
<1>5. ASSUME NEW f, NEW w, NEW l, NEW s, View(lastId, wanted, f, w, l, s)
      PROVE  WidgetsAreOrdered(lastId, v2) /\ View(lastId, v2, f, w, l, Append(s, e))
  <2>1. v2 = IF wanted[id] = Absent THEN wanted ELSE [wanted EXCEPT ![id].visible = b]
    BY DEF v2
  <2>2. View(lastId, v2, f, w, l, Append(s, e))
    BY <1>1, <1>4, <1>5, <2>1, ShowView DEF e
  <2>3. wanted \in [Ids -> Widgets \cup {Absent}]
    BY <1>4 DEF WidgetsAreOrdered
  <2>4. OnlyVisibleChanges(wanted, id, b, v2)
    BY <2>1, <2>3, ShownWidgets
  <2>5. WidgetsAreOrdered(lastId, v2)
    BY <1>4, <2>4 DEF WidgetsAreOrdered, OnlyVisibleChanges
  <2> QED BY <2>2, <2>5
<1>6. WidgetsAreOrdered(lastId, wanted)'
  <2>1. View(lastId, wanted, sent, Nothing.widgets, Nothing.items, queue)
    BY DEF GuiInv, EverybodyHasAView
  <2>2. WidgetsAreOrdered(lastId, v2)
    BY <1>5, <2>1
  <2> QED BY <1>1, <2>2
<1>7. \A f, w, l, s : View(lastId, wanted, f, w, l, s) =>
                        View(lastId', wanted', f, w, l, Append(s, e))
  BY <1>1, <1>5
<1> QED BY <1>1, <1>2, <1>3, <1>6, <1>7, CallKeepsViews

LEMMA TickKeepsViews ==
  ASSUME GuiInv, Tick
  PROVE  GuiInv'
<1>1. /\ wire' = [c \in Clients |-> IF c \in inGame THEN wire[c] \o queue ELSE wire[c]]
      /\ queue' = <<>> /\ sent' = lastId /\ lastId' = lastId /\ wanted' = wanted
      /\ inGame' = inGame /\ gui' = gui /\ from' = from /\ leaves' = leaves
  BY DEF Tick, scripts
<1>2. queue \in Seq(Packets) /\ wire \in [Clients -> Seq(Packets)]
  BY DEF GuiInv, GuiTypeOK
<1>3. lastId \in Nat
  BY ServerGuiAssumption DEF GuiInv, WidgetsAreOrdered, ServerGuiAssumption
<1>4. \A c \in Clients : wire[c] \o queue \in Seq(Packets)
  BY <1>2, ConcatProperties
<1>5. GuiTypeOK'
  BY <1>1, <1>2, <1>3, <1>4, NothingIsThere DEF GuiInv, GuiTypeOK
<1>6. View(lastId', wanted', sent', Nothing.widgets, Nothing.items, queue')
  BY <1>1, NewcomersView DEF GuiInv
<1>7. ASSUME NEW c \in Clients, c \in inGame
      PROVE  wire'[c] \o queue' = wire[c] \o queue
  BY <1>1, <1>4, <1>7, ConcatEmptySeq
<1>8. EverybodyHasAView'
  BY <1>1, <1>6, <1>7 DEF GuiInv, EverybodyHasAView
<1> QED BY <1>1, <1>5, <1>8 DEF GuiInv

LEMMA JoinKeepsViews ==
  ASSUME GuiInv, NEW c \in Clients, Join(c)
  PROVE  GuiInv'
<1>1. /\ c \notin inGame /\ inGame' = inGame \cup {c} /\ from' = [from EXCEPT ![c] = sent]
      /\ lastId' = lastId /\ wanted' = wanted /\ queue' = queue /\ sent' = sent
      /\ wire' = wire /\ gui' = gui /\ leaves' = leaves
  BY DEF Join, scripts
<1>2. queue \in Seq(Packets) /\ from \in [Clients -> Nat] /\ sent \in Nat
  BY ServerGuiAssumption
     DEF GuiInv, GuiTypeOK, WidgetsAreOrdered, ServerGuiAssumption
<1>3. GuiTypeOK'
  BY <1>1, <1>2 DEF GuiInv, GuiTypeOK
<1>4. ASSUME leaves[c] = 0
      PROVE  View(lastId, wanted, from'[c], gui[c].widgets, gui[c].items, wire[c] \o queue)
  <2>1. wire[c] = <<>> /\ gui[c].widgets = Nothing.widgets /\ gui[c].items = Nothing.items
    BY <1>1, <1>4 DEF GuiInv, EverybodyHasAView
  <2>2. wire[c] \o queue = queue
    BY <1>2, <2>1, ConcatEmptySeq
  <2>3. from'[c] = sent
    BY <1>1, <1>2
  <2> QED BY <2>1, <2>2, <2>3 DEF GuiInv, EverybodyHasAView
<1>5. \A d \in Clients \ {c} : from'[d] = from[d] /\ (d \in inGame' <=> d \in inGame)
  BY <1>1, <1>2
<1>6. EverybodyHasAView'
  BY <1>1, <1>4, <1>5 DEF GuiInv, EverybodyHasAView
<1> QED BY <1>1, <1>3, <1>6 DEF GuiInv

LEMMA LeaveKeepsViews ==
  ASSUME GuiInv, NEW c \in Clients, Leave(c)
  PROVE  GuiInv'
<1>1. /\ leaves' = [leaves EXCEPT ![c] = @ + 1] /\ inGame' = inGame \ {c}
      /\ wire' = [wire EXCEPT ![c] = <<>>]
      /\ lastId' = lastId /\ wanted' = wanted /\ queue' = queue /\ sent' = sent
      /\ gui' = gui /\ from' = from
  BY DEF Leave, scripts
<1>2. /\ wire \in [Clients -> Seq(Packets)] /\ leaves \in [Clients -> Nat]
      /\ inGame \subseteq Clients
  BY DEF GuiInv, GuiTypeOK
<1>3. GuiTypeOK'
  BY <1>1, <1>2, NothingIsThere DEF GuiInv, GuiTypeOK
<1>4. leaves'[c] # 0
  BY <1>1, <1>2
<1>5. \A d \in Clients \ {c} :
        leaves'[d] = leaves[d] /\ wire'[d] = wire[d] /\ (d \in inGame' <=> d \in inGame)
  BY <1>1, <1>2
<1>6. EverybodyHasAView'
  BY <1>1, <1>4, <1>5 DEF GuiInv, EverybodyHasAView
<1> QED BY <1>1, <1>3, <1>6 DEF GuiInv

LEMMA ReadKeepsViews ==
  ASSUME GuiInv, NEW c \in Clients, Read(c)
  PROVE  GuiInv'
<1> DEFINE g == gui[c]
           g2 == apply_packet(g, Head(wire[c]))
<1>1. /\ wire[c] # <<>> /\ gui' = [gui EXCEPT ![c] = g2]
      /\ wire' = [wire EXCEPT ![c] = Tail(@)]
      /\ lastId' = lastId /\ wanted' = wanted /\ queue' = queue /\ sent' = sent
      /\ inGame' = inGame /\ from' = from /\ leaves' = leaves
  BY DEF Read, scripts
<1>2. /\ wire \in [Clients -> Seq(Packets)] /\ gui \in [Clients -> GuiStates]
      /\ queue \in Seq(Packets) /\ wire[c] \in Seq(Packets) /\ g \in GuiStates
  BY DEF GuiInv, GuiTypeOK
<1>3. Head(wire[c]) \in Packets /\ Tail(wire[c]) \in Seq(Packets)
  BY <1>1, <1>2, HeadTailProperties
<1>4. g2 \in GuiStates
  BY <1>2, <1>3, ApplyPacket
<1>5. wire'[c] = Tail(wire[c]) /\ gui'[c] = g2
  BY <1>1, <1>2
<1>6. \A d \in Clients \ {c} : wire'[d] = wire[d] /\ gui'[d] = gui[d]
  BY <1>1, <1>2
<1>7. GuiTypeOK'
  BY <1>1, <1>2, <1>3, <1>4 DEF GuiInv, GuiTypeOK
<1>8. ASSUME leaves[c] = 0
      PROVE  /\ c \in inGame
             /\ View(lastId, wanted, from[c], g2.widgets, g2.items, Tail(wire[c]) \o queue)
  <2> DEFINE s == wire[c] \o queue
  <2>1. c \in inGame /\ View(lastId, wanted, from[c], g.widgets, g.items, s)
    BY <1>1, <1>8 DEF GuiInv, EverybodyHasAView
  <2>2. s \in Seq(Packets) /\ s # <<>>
    BY <1>1, <1>2, ConcatProperties, ConcatEqualIffEmpty
  <2>3. Head(s) = Head(wire[c]) /\ Tail(s) = Tail(wire[c]) \o queue
    BY <1>1, <1>2, HeadTailOfConcat
  <2> HIDE DEF g
  <2>4. View(lastId, wanted, from[c], g2.widgets, g2.items, Tail(s))
    BY <1>2, <2>1, <2>2, <2>3, ReadView DEF GuiInv
  <2> QED BY <2>1, <2>3, <2>4
<1>9. EverybodyHasAView'
  <2> HIDE DEF g2
  <2> QED BY <1>1, <1>5, <1>6, <1>8 DEF GuiInv, EverybodyHasAView
<1> QED BY <1>1, <1>7, <1>9 DEF GuiInv

\* The player's clicks change nothing on the screen.
LEMMA ClicksKeepViews ==
  ASSUME GuiInv, NEW c \in Clients, NEW clicks \in Seq(Nat),
         gui' = [gui EXCEPT ![c].clicks = clicks],
         UNCHANGED <<lastId, wanted, queue, sent, inGame, wire, from, leaves>>
  PROVE  GuiInv' /\ gui'[c].clicks = clicks /\ \A d \in Clients \ {c} : gui'[d] = gui[d]
<1>1. gui \in [Clients -> GuiStates] /\ gui[c] \in GuiStates
  BY DEF GuiInv, GuiTypeOK
<1> DEFINE g == [gui[c] EXCEPT !.clicks = clicks]
<1>2. /\ g \in GuiStates /\ g.clicks = clicks
      /\ g.widgets = gui[c].widgets /\ g.items = gui[c].items
  BY <1>1 DEF GuiStates
<1>3. gui' = [gui EXCEPT ![c] = g]
  OBVIOUS
<1> HIDE DEF g
<1>4. gui' \in [Clients -> GuiStates] /\ gui'[c] = g /\ \A d \in Clients \ {c} : gui'[d] = gui[d]
  BY <1>1, <1>2, <1>3
<1>5. \A d \in Clients : gui'[d].widgets = gui[d].widgets /\ gui'[d].items = gui[d].items
  BY <1>2, <1>4
<1>6. GuiTypeOK'
  BY <1>4 DEF GuiInv, GuiTypeOK
<1>7. EverybodyHasAView'
  BY <1>5 DEF GuiInv, EverybodyHasAView
<1> QED BY <1>2, <1>4, <1>6, <1>7 DEF GuiInv

ClicksAreCounted == made \in [Clients -> Nat]

\* Only the player makes clicks, one at a time.
LEMMA CountingGoesOn ==
  ASSUME ClicksAreCounted, [Next]_vars
  PROVE  ClicksAreCounted'
<1>1. CASE \E c \in Clients : Frame(c)
  BY <1>1 DEF Frame, ClicksAreCounted
<1>2. CASE made' = made
  BY <1>2 DEF ClicksAreCounted
<1>3. \/ \E c \in Clients : Frame(c)
      \/ made' = made
  BY DEF Next, Script, Create, Destroy, Show, Call, Tick, Join, Leave, Read, FlushClicks,
         HearClick, vars, clicked
<1> QED BY <1>1, <1>2, <1>3

\* Which actions change a screen, and how.
LEMMA GuiKeepsViews ==
  ASSUME GuiInv, ClicksAreCounted, [Next]_vars
  PROVE  GuiInv'
<1>1. ASSUME NEW kind \in Kinds, NEW parent \in Ids \cup {NoParent}, Create(kind, parent)
      PROVE  GuiInv'
  BY <1>1, CreateKeepsViews
<1>2. ASSUME NEW id \in Ids, Destroy(id) PROVE GuiInv'
  BY <1>2, DestroyKeepsViews
<1>3. ASSUME NEW id \in Ids, NEW b \in BOOLEAN, Show(id, b) PROVE GuiInv'
  BY <1>3, ShowKeepsViews
<1>4. CASE Tick
  BY <1>4, TickKeepsViews
<1>5. ASSUME NEW c \in Clients, Join(c) PROVE GuiInv'
  BY <1>5, JoinKeepsViews
<1>6. ASSUME NEW c \in Clients, Leave(c) PROVE GuiInv'
  BY <1>6, LeaveKeepsViews
<1>7. ASSUME NEW c \in Clients, Read(c) PROVE GuiInv'
  BY <1>7, ReadKeepsViews
<1>8. ASSUME NEW c \in Clients, Frame(c) PROVE GuiInv'
  <2>1. /\ gui' = [gui EXCEPT ![c].clicks = Append(@, made[c] + 1)]
        /\ UNCHANGED <<lastId, wanted, queue, sent, inGame, wire, from, leaves>>
    BY <1>8 DEF Frame, scripts
  <2>2. gui[c].clicks \in Seq(Nat) /\ made[c] + 1 \in Nat
    BY DEF GuiInv, GuiTypeOK, GuiStates, ClicksAreCounted
  <2>3. Append(gui[c].clicks, made[c] + 1) \in Seq(Nat)
    BY <2>2, AppendProperties
  <2> QED BY <2>1, <2>3, ClicksKeepViews
<1>9. ASSUME NEW c \in Clients, FlushClicks(c) PROVE GuiInv'
  <2>1. /\ gui' = [gui EXCEPT ![c].clicks = <<>>]
        /\ UNCHANGED <<lastId, wanted, queue, sent, inGame, wire, from, leaves>>
    BY <1>9 DEF FlushClicks, scripts
  <2>2. <<>> \in Seq(Nat)
    OBVIOUS
  <2> QED BY <2>1, <2>2, ClicksKeepViews
<1>10. CASE UNCHANGED vars \/ \E c \in Clients : HearClick(c)
  BY <1>10 DEF HearClick, vars, scripts, screen, GuiInv, GuiTypeOK, EverybodyHasAView
<1> QED BY <1>1, <1>2, <1>3, <1>4, <1>5, <1>6, <1>7, <1>8, <1>9, <1>10 DEF Next, Script

\* The views of all who have never been away, as the packets leave them.
THEOREM ViewsAreKept == Spec => [](GuiInv /\ ClicksAreCounted)
<1>1. Init => GuiInv /\ ClicksAreCounted
  BY GuiStarts DEF Init, ClicksAreCounted
<1>2. GuiInv /\ ClicksAreCounted /\ [Next]_vars => GuiInv' /\ ClicksAreCounted'
  BY GuiKeepsViews, CountingGoesOn
<1> QED BY <1>1, <1>2, PTL DEF Spec

-----------------------------------------------------------------------------
(* What a client that has read everything draws.                           *)

\* A widget it was to hear of is as the scripts have it, or below nothing.
LEMMA ReadIsWanted ==
  ASSUME NEW n, NEW v, NEW f, NEW w, NEW l,
         WidgetsAreOrdered(n, v), View(n, v, f, w, l, <<>>)
  PROVE  /\ \A id \in Ids : w[id] # Absent => f < id /\ id <= n
         /\ \A id \in Ids : f < id /\ v[id] # Absent =>
              /\ w[id] # Absent /\ w[id].kind = v[id].kind
              /\ w[id].parent = v[id].parent /\ w[id].visible = v[id].visible
         /\ \A id \in Ids : f < id /\ v[id] = Absent /\ w[id] # Absent =>
              w[id].parent \in Ids /\ v[w[id].parent] = Absent
<1>1. DOMAIN <<>> = {}
  BY EmptySeq
<1>2. \A id \in Ids : ~ Pending(<<>>, id) /\ (Had(n, f, <<>>, id) <=> f < id /\ id <= n)
  BY <1>1 DEF Pending, Had
<1>3. \A id \in Ids : w[id] # Absent => f < id /\ id <= n
  BY <1>2 DEF View, OnlyHadIsShown
<1>4. \A id \in Ids : v[id] # Absent => id <= n
  BY DEF WidgetsAreOrdered
<1>5. ASSUME NEW id \in Ids, f < id, v[id] # Absent
      PROVE  /\ w[id] # Absent /\ w[id].kind = v[id].kind
             /\ w[id].parent = v[id].parent /\ w[id].visible = v[id].visible
  <2>1. w[id] # Absent /\ w[id].kind = v[id].kind /\ w[id].parent = v[id].parent
    BY <1>2, <1>4, <1>5 DEF View, WantedStays
  <2>2. w[id].visible = v[id].visible
    BY <1>1, <1>2, <1>5 DEF View, WantedIsVisible
  <2> QED BY <2>1, <2>2
<1>6. ASSUME NEW id \in Ids, f < id, v[id] = Absent, w[id] # Absent
      PROVE  w[id].parent \in Ids /\ v[w[id].parent] = Absent
  BY <1>1, <1>3, <1>6 DEF View, UnwantedGoes
<1> QED BY <1>3, <1>5, <1>6

LEMMA DrawnIsWanted ==
  ASSUME NEW n, NEW v, NEW f, NEW w, NEW l,
         WidgetsAreOrdered(n, v), View(n, v, f, w, l, <<>>)
  PROVE  \A id \in Ids : id \in Drawn(w) <=> id \in Drawn(v) /\ v[id].parent > f
<1>1. /\ \A id \in Ids : w[id] # Absent => f < id /\ id <= n
      /\ \A id \in Ids : f < id /\ v[id] # Absent =>
           /\ w[id] # Absent /\ w[id].kind = v[id].kind
           /\ w[id].parent = v[id].parent /\ w[id].visible = v[id].visible
      /\ \A id \in Ids : f < id /\ v[id] = Absent /\ w[id] # Absent =>
           w[id].parent \in Ids /\ v[w[id].parent] = Absent
  BY ReadIsWanted
<1>2. f \in Int /\ \A id \in Ids : v[id] # Absent => v[id].parent < id
  BY ServerGuiAssumption
     DEF View, ViewTypeOK, WidgetsAreOrdered, ServerGuiAssumption
<1>3. ASSUME NEW id \in Ids, id \in Drawn(w)
      PROVE  id \in Drawn(v) /\ v[id].parent > f
  <2>1. PICK top \in TopWindows(w) : w[top].visible /\ w[id].parent = top
    BY <1>3 DEF Drawn
  <2>2. /\ top \in Ids /\ w[top] # Absent /\ w[top].kind = "Window" /\ w[top].parent = NoParent
        /\ w[id] # Absent /\ w[id].visible /\ w[id].kind # "Window"
    BY <1>3, <2>1 DEF Drawn, TopWindows
  <2>3. f < top /\ f < id
    BY <1>1, <2>2
  <2>4. v[top] # Absent
    BY <1>1, <2>2, <2>3 DEF Ids, NoParent
  <2>5. v[id] # Absent
    BY <1>1, <2>1, <2>2, <2>3, <2>4
  <2>6. top \in TopWindows(v) /\ v[top].visible
    BY <1>1, <2>1, <2>2, <2>3, <2>4 DEF TopWindows
  <2>7. v[id].visible /\ v[id].kind # "Window" /\ v[id].parent = top
    BY <1>1, <2>1, <2>2, <2>3, <2>5
  <2> QED BY <1>2, <2>3, <2>5, <2>6, <2>7 DEF Drawn, Ids
<1>4. ASSUME NEW id \in Ids, id \in Drawn(v), v[id].parent > f
      PROVE  id \in Drawn(w)
  <2>1. PICK top \in TopWindows(v) : v[top].visible /\ v[id].parent = top
    BY <1>4 DEF Drawn
  <2>2. /\ top \in Ids /\ v[top] # Absent /\ v[top].kind = "Window" /\ v[top].parent = NoParent
        /\ v[id] # Absent /\ v[id].visible /\ v[id].kind # "Window"
    BY <1>4, <2>1 DEF Drawn, TopWindows
  <2>3. f < top /\ f < id
    BY <1>2, <1>4, <2>1, <2>2 DEF Ids
  <2>4. top \in TopWindows(w) /\ w[top].visible
    BY <1>1, <2>1, <2>2, <2>3 DEF TopWindows
  <2>5. w[id] # Absent /\ w[id].visible /\ w[id].kind # "Window" /\ w[id].parent = top
    BY <1>1, <2>1, <2>2, <2>3
  <2> QED BY <2>4, <2>5 DEF Drawn
<1> QED BY <1>3, <1>4

LEMMA LinesAreWanted ==
  ASSUME NEW n, NEW v, NEW f, NEW w, NEW l, NEW list \in Ids, f < list, v[list] # Absent,
         WidgetsAreOrdered(n, v), View(n, v, f, w, l, <<>>)
  PROVE  {l[list][k] : k \in {j \in DOMAIN l[list] : w[l[list][j]] # Absent}} =
           {i \in Ids : v[i].kind = "ListItem" /\ v[i].parent = list}
<1>1. /\ \A id \in Ids : w[id] # Absent => f < id /\ id <= n
      /\ \A id \in Ids : f < id /\ v[id] # Absent =>
           /\ w[id] # Absent /\ w[id].kind = v[id].kind /\ w[id].parent = v[id].parent
      /\ \A id \in Ids : f < id /\ v[id] = Absent /\ w[id] # Absent =>
           w[id].parent \in Ids /\ v[w[id].parent] = Absent
  BY ReadIsWanted
<1>2. /\ f \in Int /\ l \in [Ids -> Seq(Ids)]
      /\ \A id \in Ids : v[id] # Absent => v[id].parent < id /\ id <= n
  BY ServerGuiAssumption
     DEF View, ViewTypeOK, WidgetsAreOrdered, ServerGuiAssumption
<1>3. \A k \in DOMAIN l[list] : l[list][k] \in Ids
  BY <1>2
<1>4. ASSUME NEW k \in DOMAIN l[list], w[l[list][k]] # Absent
      PROVE  v[l[list][k]].kind = "ListItem" /\ v[l[list][k]].parent = list
  <2>1. w[l[list][k]].kind = "ListItem" /\ w[l[list][k]].parent = list
    BY <1>4 DEF View, ItemsAreOrdered
  <2> QED BY <1>1, <1>3, <1>4, <2>1
<1>5. ASSUME NEW i \in Ids, v[i].kind = "ListItem", v[i].parent = list
      PROVE  \E k \in DOMAIN l[list] : l[list][k] = i /\ w[l[list][k]] # Absent
  <2>1. v[i] # Absent
    BY <1>5 DEF Absent
  <2>2. f < i /\ i <= n
    BY <1>2, <1>5, <2>1 DEF Ids
  <2>3. Had(n, f, <<>>, i)
    BY <2>2, EmptySeq DEF Had, Pending
  <2>4. \E k \in DOMAIN l[list] : l[list][k] = i
    BY <1>5, <2>1, <2>3 DEF View, ItemsAreListed
  <2> QED BY <1>1, <2>1, <2>2, <2>4
<1> QED BY <1>3, <1>4, <1>5

\* Who has read everything draws what the scripts have in the windows made
\* since it came, and its lists hold what the scripts have put in them.
THEOREM ScreensAreWanted == Spec => []ScreenIsWanted
<1>1. GuiInv => ScreenIsWanted
  <2> SUFFICES ASSUME GuiInv, NEW c \in Clients, IsUpToDate(c)
               PROVE  /\ Drawn(gui[c].widgets) = {id \in Drawn(wanted) : TopOf(id) > from[c]}
                      /\ \A list \in Drawn(gui[c].widgets) : gui[c].widgets[list].kind = "List" =>
                           LET item == gui[c].items[list]
                               lines == Lines(gui[c], list)
                           IN /\ {item[k] : k \in lines} =
                                   {i \in Ids : wanted[i].kind = "ListItem" /\ wanted[i].parent = list}
                              /\ \A j, k \in lines : j < k => item[j] < item[k]
    BY DEF ScreenIsWanted
  <2> DEFINE w == gui[c].widgets
             l == gui[c].items
             f == from[c]
  <2>1. WidgetsAreOrdered(lastId, wanted) /\ View(lastId, wanted, f, w, l, <<>>)
    <3>1. <<>> \o <<>> = <<>>
      BY NothingIsThere, ConcatEmptySeq
    <3> QED BY <3>1 DEF GuiInv, EverybodyHasAView, IsUpToDate
  <2>2. f \in Int /\ \A id \in Ids : wanted[id] # Absent => wanted[id].parent < id
    BY <2>1, ServerGuiAssumption
       DEF View, ViewTypeOK, WidgetsAreOrdered, ServerGuiAssumption
  <2>3. Drawn(w) \subseteq Ids /\ Drawn(wanted) \subseteq Ids
    BY DEF Drawn
  <2> HIDE DEF w, l, f
  <2>4. \A id \in Ids : id \in Drawn(w) <=> id \in Drawn(wanted) /\ wanted[id].parent > f
    BY <2>1, DrawnIsWanted
  <2>5. \A id \in Drawn(wanted) : TopOf(id) = wanted[id].parent
    BY DEF Drawn, TopOf
  <2>6. Drawn(w) = {id \in Drawn(wanted) : TopOf(id) > f}
    BY <2>3, <2>4, <2>5
  <2>7. ASSUME NEW list \in Drawn(w)
        PROVE  /\ {l[list][k] : k \in Lines(gui[c], list)} =
                    {i \in Ids : wanted[i].kind = "ListItem" /\ wanted[i].parent = list}
               /\ \A j, k \in Lines(gui[c], list) : j < k => l[list][j] < l[list][k]
    <3>1. Lines(gui[c], list) = {j \in DOMAIN l[list] : w[l[list][j]] # Absent}
      BY DEF Lines, w, l
    <3>2. list \in Ids /\ wanted[list] # Absent /\ f < list
      <4>1. list \in Ids /\ list \in Drawn(wanted) /\ wanted[list].parent > f
        BY <2>3, <2>4, <2>7
      <4>2. wanted[list] # Absent
        BY <4>1 DEF Drawn
      <4>3. wanted[list].parent \in Ids
        BY <4>1 DEF Drawn, TopWindows
      <4> QED BY <2>2, <4>1, <4>2, <4>3 DEF Ids
    <3>3. {l[list][k] : k \in Lines(gui[c], list)} =
            {i \in Ids : wanted[i].kind = "ListItem" /\ wanted[i].parent = list}
      BY <2>1, <3>1, <3>2, LinesAreWanted
    <3>4. \A j, k \in Lines(gui[c], list) : j < k => l[list][j] < l[list][k]
      BY <2>1, <3>1, <3>2 DEF View, ItemsAreOrdered
    <3> QED BY <3>3, <3>4
  <2> QED BY <2>6, <2>7 DEF w, l, f
<1> QED BY <1>1, ViewsAreKept, PTL

-----------------------------------------------------------------------------
(* Clicks.                                                                 *)

Rising(s) == \A i, j \in DOMAIN s : i < j => s[i] < s[j]
Before(s, t) == \A i \in DOMAIN s, j \in DOMAIN t : s[i] < t[j]

\* The m clicks of a player: h heard, then u on their way, then p still to be
\* sent, and l nowhere.
Clicks(h, u, p, m, l) ==
  /\ h \in Seq(Nat) /\ u \in Seq(Nat) /\ p \in Seq(Nat) /\ m \in Nat
  /\ Rising(h) /\ Rising(u) /\ Rising(p)
  /\ Before(h, u) /\ Before(h, p) /\ Before(u, p)
  /\ Numbers(h) \cup Numbers(u) \cup Numbers(p) \subseteq 1 .. m
  /\ l = (1 .. m) \ (Numbers(h) \cup Numbers(u) \cup Numbers(p))

\* The next click comes after all others.
LEMMA OneMoreClick ==
  ASSUME NEW h, NEW u, NEW p, NEW m, NEW l, Clicks(h, u, p, m, l)
  PROVE  Clicks(h, u, Append(p, m + 1), m + 1, l)
<1> DEFINE q == Append(p, m + 1)
<1>1. /\ h \in Seq(Nat) /\ u \in Seq(Nat) /\ p \in Seq(Nat) /\ m \in Nat
      /\ \A i \in DOMAIN h : h[i] \in 1 .. m
      /\ \A i \in DOMAIN u : u[i] \in 1 .. m
      /\ \A i \in DOMAIN p : p[i] \in 1 .. m
  BY DEF Clicks, Numbers
<1>2. /\ q \in Seq(Nat) /\ DOMAIN p = 1 .. Len(p) /\ DOMAIN q = 1 .. Len(p) + 1 /\ Len(p) \in Nat
      /\ \A i \in 1 .. Len(p) : q[i] = p[i]
      /\ q[Len(p) + 1] = m + 1
  BY <1>1, AppendProperties, LenProperties
<1> HIDE DEF q
<1>3. Numbers(q) = Numbers(p) \cup {m + 1}
  BY <1>2 DEF Numbers
<1>4. Rising(q)
  <2> SUFFICES ASSUME NEW i \in DOMAIN q, NEW j \in DOMAIN q, i < j PROVE q[i] < q[j]
    BY DEF Rising
  <2>0. i \in 1 .. Len(p) /\ i \in DOMAIN p /\ q[i] = p[i]
    BY <1>2
  <2>1. CASE j = Len(p) + 1
    <3>1. p[i] \in 1 .. m /\ q[j] = m + 1
      BY <1>1, <1>2, <2>0, <2>1
    <3> QED BY <1>1, <2>0, <3>1
  <2>2. CASE j # Len(p) + 1
    <3>1. j \in DOMAIN p /\ q[j] = p[j]
      BY <1>2, <2>2
    <3> QED BY <2>0, <3>1 DEF Clicks, Rising
  <2> QED BY <2>1, <2>2
<1>5. Before(h, q) /\ Before(u, q)
  <2>1. ASSUME NEW s, \A i \in DOMAIN s : s[i] \in 1 .. m, Before(s, p) PROVE Before(s, q)
    <3> SUFFICES ASSUME NEW i \in DOMAIN s, NEW j \in DOMAIN q PROVE s[i] < q[j]
      BY DEF Before
    <3>1. CASE j = Len(p) + 1
      BY <1>1, <1>2, <2>1, <3>1
    <3>2. CASE j # Len(p) + 1
      BY <1>2, <2>1, <3>2 DEF Before
    <3> QED BY <3>1, <3>2
  <2> QED BY <1>1, <2>1 DEF Clicks
<1>6. /\ m + 1 \in Nat /\ 1 .. m + 1 = (1 .. m) \cup {m + 1} /\ m + 1 \notin 1 .. m
  BY <1>1
<1>7. Numbers(h) \cup Numbers(u) \cup Numbers(q)
        = (Numbers(h) \cup Numbers(u) \cup Numbers(p)) \cup {m + 1}
  BY <1>3
<1>8. /\ Numbers(h) \cup Numbers(u) \cup Numbers(q) \subseteq 1 .. m + 1
      /\ l = (1 .. m + 1) \ (Numbers(h) \cup Numbers(u) \cup Numbers(q))
  BY <1>6, <1>7 DEF Clicks
<1>9. Rising(h) /\ Rising(u) /\ Before(h, u)
  BY DEF Clicks
<1> QED BY <1>1, <1>2, <1>4, <1>5, <1>6, <1>8, <1>9 DEF Clicks, q

\* The first clicks are sent and the others are not.
LEMMA SomeClicksGo ==
  ASSUME NEW h, NEW u, NEW p, NEW m, NEW l, Clicks(h, u, p, m, l), NEW n \in 0 .. Len(p)
  PROVE  Clicks(h, u \o SubSeq(p, 1, n), <<>>, m, l \cup {p[i] : i \in n + 1 .. Len(p)})
<1> DEFINE q == SubSeq(p, 1, n)
           v == u \o q
           gone == {p[i] : i \in n + 1 .. Len(p)}
<1>1. /\ h \in Seq(Nat) /\ u \in Seq(Nat) /\ p \in Seq(Nat) /\ m \in Nat
      /\ Rising(h) /\ Rising(u) /\ Rising(p)
      /\ Before(h, u) /\ Before(h, p) /\ Before(u, p)
  BY DEF Clicks
<1>2. /\ q \in Seq(Nat) /\ DOMAIN p = 1 .. Len(p) /\ Len(p) \in Nat /\ DOMAIN q = 1 .. n
      /\ Len(q) = n /\ \A i \in 1 .. n : q[i] = p[i]
  BY <1>1, SubSeqProperties, LenProperties
<1> HIDE DEF q
<1>3. /\ v \in Seq(Nat) /\ DOMAIN u = 1 .. Len(u) /\ Len(u) \in Nat
      /\ DOMAIN v = 1 .. Len(u) + n
      /\ \A i \in 1 .. Len(u) : v[i] = u[i]
      /\ \A i \in Len(u) + 1 .. Len(u) + n : v[i] = p[i - Len(u)]
  <2>1. v \in Seq(Nat) /\ Len(v) = Len(u) + n /\ Len(u) \in Nat
    BY <1>1, <1>2, ConcatProperties, LenProperties
  <2>2. DOMAIN v = 1 .. Len(u) + n /\ DOMAIN u = 1 .. Len(u)
    BY <1>1, <2>1, LenProperties
  <2>3. \A i \in 1 .. Len(u) + n : v[i] = IF i <= Len(u) THEN u[i] ELSE q[i - Len(u)]
    BY <1>1, <1>2, <2>1, ConcatProperties
  <2> QED BY <1>2, <2>1, <2>2, <2>3
<1> HIDE DEF v
<1>4. Rising(v)
  <2> SUFFICES ASSUME NEW i \in DOMAIN v, NEW j \in DOMAIN v, i < j PROVE v[i] < v[j]
    BY DEF Rising
  <2>0. i \in 1 .. Len(u) + n /\ j \in 1 .. Len(u) + n
    BY <1>3
  <2>1. CASE j <= Len(u)
    <3>1. i \in DOMAIN u /\ j \in DOMAIN u /\ v[i] = u[i] /\ v[j] = u[j]
      BY <1>3, <2>0, <2>1
    <3> QED BY <1>1, <3>1 DEF Rising
  <2>2. CASE i <= Len(u) /\ j > Len(u)
    <3>0. /\ i \in 1 .. Len(u) /\ j - Len(u) \in 1 .. Len(p)
          /\ j \in Len(u) + 1 .. Len(u) + n
      BY <1>2, <1>3, <2>0, <2>2
    <3>1. i \in DOMAIN u /\ j - Len(u) \in DOMAIN p /\ v[i] = u[i] /\ v[j] = p[j - Len(u)]
      BY <1>2, <1>3, <3>0
    <3> QED BY <1>1, <3>1 DEF Before
  <2>3. CASE i > Len(u)
    <3>0. /\ i - Len(u) \in 1 .. Len(p) /\ j - Len(u) \in 1 .. Len(p)
          /\ i \in Len(u) + 1 .. Len(u) + n /\ j \in Len(u) + 1 .. Len(u) + n
          /\ i - Len(u) < j - Len(u)
      BY <1>2, <1>3, <2>0, <2>3
    <3>1. /\ i - Len(u) \in DOMAIN p /\ j - Len(u) \in DOMAIN p /\ i - Len(u) < j - Len(u)
          /\ v[i] = p[i - Len(u)] /\ v[j] = p[j - Len(u)]
      BY <1>2, <1>3, <3>0
    <3> QED BY <1>1, <3>1 DEF Rising
  <2> QED BY <1>3, <2>0, <2>1, <2>2, <2>3
<1>5. Before(h, v)
  <2> SUFFICES ASSUME NEW i \in DOMAIN h, NEW j \in DOMAIN v PROVE h[i] < v[j]
    BY DEF Before
  <2>0. j \in 1 .. Len(u) + n
    BY <1>3
  <2>1. CASE j <= Len(u)
    <3>1. j \in DOMAIN u /\ v[j] = u[j]
      BY <1>3, <2>0, <2>1
    <3> QED BY <1>1, <3>1 DEF Before
  <2>2. CASE j > Len(u)
    <3>0. j - Len(u) \in 1 .. Len(p) /\ j \in Len(u) + 1 .. Len(u) + n
      BY <1>2, <1>3, <2>0, <2>2
    <3>1. j - Len(u) \in DOMAIN p /\ v[j] = p[j - Len(u)]
      BY <1>2, <1>3, <3>0
    <3> QED BY <1>1, <3>1 DEF Before
  <2> QED BY <1>3, <2>0, <2>1, <2>2
<1>6. /\ <<>> \in Seq(Nat) /\ Rising(<<>>) /\ Before(h, <<>>) /\ Before(v, <<>>)
      /\ Numbers(<<>>) = {}
  BY NothingIsThere DEF Rising, Before, Numbers
<1>7. /\ Numbers(p) = Numbers(q) \cup gone
      /\ Numbers(v) = Numbers(u) \cup Numbers(q)
  <2>1. Numbers(q) = {p[i] : i \in 1 .. n} /\ Numbers(p) = {p[i] : i \in 1 .. Len(p)}
    BY <1>2 DEF Numbers
  <2>2. 1 .. Len(p) = (1 .. n) \cup (n + 1 .. Len(p))
    BY <1>2
  <2>3. ASSUME NEW x \in Numbers(v) PROVE x \in Numbers(u) \cup Numbers(q)
    <3>1. PICK i \in 1 .. Len(u) + n : x = v[i]
      BY <1>3 DEF Numbers
    <3>2. CASE i <= Len(u)
      BY <1>3, <3>1, <3>2 DEF Numbers
    <3>3. CASE i > Len(u)
      <4>1. i - Len(u) \in 1 .. n /\ x = p[i - Len(u)]
        BY <1>2, <1>3, <3>1, <3>3
      <4> QED BY <2>1, <4>1
    <3> QED BY <1>3, <3>1, <3>2, <3>3
  <2>4. Numbers(u) \subseteq Numbers(v)
    BY <1>2, <1>3 DEF Numbers
  <2>5. ASSUME NEW i \in 1 .. n PROVE p[i] \in Numbers(v)
    <3>1. /\ i + Len(u) \in 1 .. Len(u) + n /\ i + Len(u) \in Len(u) + 1 .. Len(u) + n
          /\ (i + Len(u)) - Len(u) = i
      BY <1>2, <1>3
    <3>2. i + Len(u) \in DOMAIN v /\ v[i + Len(u)] = p[i]
      BY <1>3, <3>1
    <3> QED BY <3>2 DEF Numbers
  <2> QED BY <2>1, <2>2, <2>3, <2>4, <2>5
<1>8. gone \cap (Numbers(h) \cup Numbers(u) \cup Numbers(q)) = {}
  <2> SUFFICES ASSUME NEW i \in n + 1 .. Len(p)
               PROVE  p[i] \notin Numbers(h) \cup Numbers(u) \cup Numbers(q)
    OBVIOUS
  <2>1. i \in DOMAIN p /\ p[i] \in Nat
    BY <1>1, <1>2, ElementOfSeq
  <2>2. p[i] \notin Numbers(h) /\ p[i] \notin Numbers(u)
    BY <1>1, <2>1 DEF Numbers, Before
  <2>3. p[i] \notin Numbers(q)
    <3> SUFFICES ASSUME NEW j \in 1 .. n PROVE p[j] # p[i]
      BY <1>2 DEF Numbers
    <3>1. j \in DOMAIN p /\ j < i
      BY <1>2
    <3> QED BY <1>1, <2>1, <3>1 DEF Rising
  <2> QED BY <2>2, <2>3
<1> HIDE DEF gone
<1>9. /\ Numbers(h) \cup Numbers(u) \cup Numbers(p) \subseteq 1 .. m
      /\ l = (1 .. m) \ (Numbers(h) \cup Numbers(u) \cup Numbers(p))
  BY DEF Clicks
<1>10. /\ Numbers(h) \cup Numbers(v) \cup Numbers(<<>>) \subseteq 1 .. m
       /\ l \cup gone = (1 .. m) \ (Numbers(h) \cup Numbers(v) \cup Numbers(<<>>))
  BY <1>6, <1>7, <1>8, <1>9
<1> QED BY <1>1, <1>3, <1>4, <1>5, <1>6, <1>10 DEF Clicks, v, q, gone

\* The first on the way is heard.
LEMMA OneClickIsHeard ==
  ASSUME NEW h, NEW u, NEW p, NEW m, NEW l, Clicks(h, u, p, m, l), u # <<>>
  PROVE  Clicks(Append(h, Head(u)), Tail(u), p, m, l)
<1> DEFINE k == Append(h, Head(u))
           t == Tail(u)
<1>1. /\ h \in Seq(Nat) /\ u \in Seq(Nat) /\ p \in Seq(Nat) /\ m \in Nat
      /\ Rising(h) /\ Rising(u) /\ Rising(p)
      /\ Before(h, u) /\ Before(h, p) /\ Before(u, p)
  BY DEF Clicks
<1>2. /\ t \in Seq(Nat) /\ Head(u) = u[1] /\ u[1] \in Nat
      /\ DOMAIN u = 1 .. Len(u) /\ Len(u) \in Nat /\ Len(u) >= 1 /\ DOMAIN t = 1 .. Len(u) - 1
      /\ \A i \in 1 .. Len(u) - 1 : t[i] = u[i + 1]
  BY <1>1, HeadTailProperties, LenProperties, EmptySeq
<1>3. /\ k \in Seq(Nat) /\ DOMAIN h = 1 .. Len(h) /\ Len(h) \in Nat /\ DOMAIN k = 1 .. Len(h) + 1
      /\ \A i \in 1 .. Len(h) : k[i] = h[i]
      /\ k[Len(h) + 1] = u[1]
  BY <1>1, <1>2, AppendProperties, LenProperties
<1> HIDE DEF k, t
<1>4. 1 \in DOMAIN u /\ \A i \in DOMAIN t : i + 1 \in DOMAIN u /\ 1 < i + 1 /\ t[i] = u[i + 1]
  BY <1>2
<1>5. Rising(t) /\ Before(t, p)
  <2>1. ASSUME NEW i \in DOMAIN t, NEW j \in DOMAIN t, i < j PROVE t[i] < t[j]
    BY <1>1, <1>2, <1>4, <2>1 DEF Rising
  <2> QED BY <1>1, <1>4, <2>1 DEF Rising, Before
<1>6. \A i \in DOMAIN k : k[i] = u[1] \/ (i \in DOMAIN h /\ k[i] = h[i])
  BY <1>3
<1>7. Rising(k)
  <2> SUFFICES ASSUME NEW i \in DOMAIN k, NEW j \in DOMAIN k, i < j PROVE k[i] < k[j]
    BY DEF Rising
  <2>1. i \in DOMAIN h /\ k[i] = h[i]
    BY <1>3
  <2>2. CASE j = Len(h) + 1
    BY <1>1, <1>3, <1>4, <2>1, <2>2 DEF Before
  <2>3. CASE j # Len(h) + 1
    <3>1. j \in DOMAIN h /\ k[j] = h[j]
      BY <1>3, <2>3
    <3> QED BY <1>1, <2>1, <3>1 DEF Rising
  <2> QED BY <2>2, <2>3
<1>8. Before(k, p)
  BY <1>1, <1>4, <1>6 DEF Before
<1>9. Before(k, t)
  <2> SUFFICES ASSUME NEW i \in DOMAIN k, NEW j \in DOMAIN t PROVE k[i] < t[j]
    BY DEF Before
  <2>1. CASE k[i] = u[1]
    BY <1>1, <1>4, <2>1 DEF Rising
  <2>2. CASE i \in DOMAIN h /\ k[i] = h[i]
    BY <1>1, <1>4, <2>2 DEF Before
  <2> QED BY <1>6, <2>1, <2>2
<1>10. Numbers(k) = Numbers(h) \cup {u[1]} /\ Numbers(u) = Numbers(t) \cup {u[1]}
  <2>1. Numbers(k) = Numbers(h) \cup {u[1]}
    BY <1>3 DEF Numbers
  <2>2. ASSUME NEW i \in DOMAIN u PROVE u[i] \in Numbers(t) \cup {u[1]}
    <3>1. CASE i = 1
      BY <3>1
    <3>2. CASE i # 1
      <4>1. i - 1 \in DOMAIN t /\ t[i - 1] = u[i]
        BY <1>2, <3>2
      <4> QED BY <4>1 DEF Numbers
    <3> QED BY <3>1, <3>2
  <2>3. Numbers(t) \cup {u[1]} \subseteq Numbers(u)
    BY <1>4 DEF Numbers
  <2> QED BY <2>1, <2>2, <2>3 DEF Numbers
<1>11. Numbers(k) \cup Numbers(t) \cup Numbers(p) = Numbers(h) \cup Numbers(u) \cup Numbers(p)
  BY <1>10
<1> QED BY <1>1, <1>2, <1>3, <1>5, <1>7, <1>8, <1>9, <1>11 DEF Clicks, k, t

\* What was on the way is gone.
LEMMA ClicksGetLost ==
  ASSUME NEW h, NEW u, NEW p, NEW m, NEW l, Clicks(h, u, p, m, l)
  PROVE  Clicks(h, <<>>, p, m, l \cup Numbers(u))
<1>1. /\ h \in Seq(Nat) /\ u \in Seq(Nat) /\ p \in Seq(Nat)
      /\ Before(h, u) /\ Before(u, p)
      /\ Numbers(h) \cup Numbers(u) \cup Numbers(p) \subseteq 1 .. m
      /\ l = (1 .. m) \ (Numbers(h) \cup Numbers(u) \cup Numbers(p))
  BY DEF Clicks
<1>2. ASSUME NEW i \in DOMAIN u PROVE u[i] \notin Numbers(h) \cup Numbers(p)
  <2>1. u[i] \in Nat
    BY <1>1, ElementOfSeq, LenProperties
  <2> QED BY <1>1, <2>1 DEF Before, Numbers
<1>3. Numbers(u) \cap (Numbers(h) \cup Numbers(p)) = {}
  BY <1>2 DEF Numbers
<1>4. /\ <<>> \in Seq(Nat) /\ Rising(<<>>) /\ Before(h, <<>>) /\ Before(<<>>, p)
      /\ Numbers(<<>>) = {}
  BY NothingIsThere DEF Rising, Before, Numbers
<1>5. /\ Numbers(h) \cup Numbers(<<>>) \cup Numbers(p) \subseteq 1 .. m
      /\ l \cup Numbers(u) = (1 .. m) \ (Numbers(h) \cup Numbers(<<>>) \cup Numbers(p))
  BY <1>1, <1>3, <1>4
<1> QED BY <1>1, <1>4, <1>5 DEF Clicks

ClicksInv ==
  /\ up \in [Clients -> Seq(Nat)] /\ heard \in [Clients -> Seq(Nat)]
  /\ lost \in [Clients -> SUBSET Nat]
  /\ \A c \in Clients : Clicks(heard[c], up[c], gui[c].clicks, made[c], lost[c])

LEMMA ClicksStart == Init => ClicksInv
<1> SUFFICES ASSUME Init PROVE ClicksInv
  OBVIOUS
<1>1. <<>> \in Seq(Nat) /\ Rising(<<>>) /\ Before(<<>>, <<>>) /\ Numbers(<<>>) = {}
  BY NothingIsThere DEF Rising, Before, Numbers
<1>2. Clicks(<<>>, <<>>, <<>>, 0, {})
  BY <1>1 DEF Clicks
<1> QED BY <1>1, <1>2, NothingIsThere DEF Init, ClicksInv

LEMMA ClicksAreKept ==
  ASSUME GuiInv, ClicksAreCounted, ClicksInv, [Next]_vars
  PROVE  ClicksInv'
<1>1. gui \in [Clients -> GuiStates] /\ wire \in [Clients -> Seq(Packets)]
  BY DEF GuiInv, GuiTypeOK
<1>2. CASE UNCHANGED <<gui, clicked>>
  BY <1>2 DEF clicked, ClicksInv
<1>3. CASE Script \/ Tick \/ (\E c \in Clients : Join(c)) \/ UNCHANGED vars
  <2>1. UNCHANGED <<gui, clicked>>
    BY <1>3 DEF Script, Create, Destroy, Show, Call, Tick, Join, vars, screen
  <2> QED BY <1>2, <2>1
<1>4. ASSUME NEW c \in Clients, Read(c) PROVE ClicksInv'
  <2>1. /\ wire[c] # <<>> /\ UNCHANGED clicked
        /\ gui' = [gui EXCEPT ![c] = apply_packet(gui[c], Head(wire[c]))]
    BY <1>4 DEF Read
  <2>2. apply_packet(gui[c], Head(wire[c])).clicks = gui[c].clicks
    BY <1>1, <2>1, HeadTailProperties, ApplyPacket
  <2>3. \A d \in Clients : gui'[d].clicks = gui[d].clicks
    BY <1>1, <2>1, <2>2
  <2> QED BY <2>1, <2>3 DEF clicked, ClicksInv
<1>5. ASSUME NEW c \in Clients, Frame(c) PROVE ClicksInv'
  <2>1. /\ gui' = [gui EXCEPT ![c].clicks = Append(@, made[c] + 1)]
        /\ made' = [made EXCEPT ![c] = @ + 1] /\ UNCHANGED <<up, heard, lost>>
        /\ UNCHANGED <<lastId, wanted, queue, sent, inGame, wire, from, leaves>>
    BY <1>5 DEF Frame, scripts
  <2>2. Append(gui[c].clicks, made[c] + 1) \in Seq(Nat)
    BY <1>1, AppendProperties DEF GuiStates, ClicksAreCounted
  <2>3. gui'[c].clicks = Append(gui[c].clicks, made[c] + 1)
        /\ \A d \in Clients \ {c} : gui'[d] = gui[d]
    BY <2>1, <2>2, ClicksKeepViews
  <2>4. made'[c] = made[c] + 1 /\ \A d \in Clients \ {c} : made'[d] = made[d]
    BY <2>1 DEF ClicksAreCounted
  <2>5. Clicks(heard[c], up[c], Append(gui[c].clicks, made[c] + 1), made[c] + 1, lost[c])
    BY OneMoreClick DEF ClicksInv
  <2> QED BY <2>1, <2>3, <2>4, <2>5 DEF ClicksInv
<1>6. ASSUME NEW c \in Clients, FlushClicks(c) PROVE ClicksInv'
  <2>1. PICK n \in 0 .. Len(gui[c].clicks) :
          LET arriving == IF c \in inGame THEN n ELSE 0
          IN /\ up' = [up EXCEPT ![c] = @ \o SubSeq(gui[c].clicks, 1, arriving)]
             /\ lost' = [lost EXCEPT
                  ![c] = @ \cup {gui[c].clicks[i] : i \in arriving + 1 .. Len(gui[c].clicks)}]
    BY <1>6 DEF FlushClicks
  <2> DEFINE a == IF c \in inGame THEN n ELSE 0
             v == up[c] \o SubSeq(gui[c].clicks, 1, a)
             x == lost[c] \cup {gui[c].clicks[i] : i \in a + 1 .. Len(gui[c].clicks)}
  <2>2. /\ gui' = [gui EXCEPT ![c].clicks = <<>>] /\ UNCHANGED <<made, heard>>
        /\ UNCHANGED <<lastId, wanted, queue, sent, inGame, wire, from, leaves>>
    BY <1>6 DEF FlushClicks, scripts
  <2>3. gui'[c].clicks = <<>> /\ \A d \in Clients \ {c} : gui'[d] = gui[d]
    <3>1. <<>> \in Seq(Nat)
      OBVIOUS
    <3> QED BY <2>2, <3>1, ClicksKeepViews
  <2>4. a \in 0 .. Len(gui[c].clicks)
    <3>1. Len(gui[c].clicks) \in Nat
      BY <1>1, LenProperties DEF GuiStates
    <3> QED BY <3>1
  <2>5. up' = [up EXCEPT ![c] = v] /\ lost' = [lost EXCEPT ![c] = x]
    BY <2>1
  <2> HIDE DEF a
  <2>6. Clicks(heard[c], v, <<>>, made[c], x)
    <3>1. Clicks(heard[c], up[c], gui[c].clicks, made[c], lost[c])
      BY DEF ClicksInv
    <3> QED BY <2>4, <3>1, SomeClicksGo
  <2> HIDE DEF v, x
  <2>7. v \in Seq(Nat) /\ x \in SUBSET Nat
    BY <2>6 DEF Clicks
  <2> QED BY <2>2, <2>3, <2>5, <2>6, <2>7 DEF ClicksInv
<1>7. ASSUME NEW c \in Clients, HearClick(c) PROVE ClicksInv'
  <2>1. /\ up[c] # <<>> /\ up' = [up EXCEPT ![c] = Tail(@)]
        /\ heard' = [heard EXCEPT ![c] = Append(@, Head(up[c]))]
        /\ UNCHANGED <<gui, made, lost>>
    BY <1>7 DEF HearClick, screen
  <2>2. Clicks(Append(heard[c], Head(up[c])), Tail(up[c]), gui[c].clicks, made[c], lost[c])
    BY <2>1, OneClickIsHeard DEF ClicksInv
  <2>3. Append(heard[c], Head(up[c])) \in Seq(Nat) /\ Tail(up[c]) \in Seq(Nat)
    BY <2>2 DEF Clicks
  <2> QED BY <2>1, <2>2, <2>3 DEF ClicksInv
<1>8. ASSUME NEW c \in Clients, Leave(c) PROVE ClicksInv'
  <2>1. /\ up' = [up EXCEPT ![c] = <<>>] /\ lost' = [lost EXCEPT ![c] = @ \cup Numbers(up[c])]
        /\ UNCHANGED <<gui, made, heard>>
    BY <1>8 DEF Leave
  <2>2. Clicks(heard[c], <<>>, gui[c].clicks, made[c], lost[c] \cup Numbers(up[c]))
    BY ClicksGetLost DEF ClicksInv
  <2>3. <<>> \in Seq(Nat) /\ lost[c] \cup Numbers(up[c]) \in SUBSET Nat
    BY <2>2 DEF Clicks
  <2> QED BY <2>1, <2>2, <2>3 DEF ClicksInv
<1> QED BY <1>3, <1>4, <1>5, <1>6, <1>7, <1>8 DEF Next

\* The scripts hear of a player's clicks in the order they were made and of none
\* twice, over any number of connections, and those they will never hear of are
\* the ones a failed send or the end of a session threw away.
THEOREM ClicksAreHeardInOrder == Spec => []ClicksAreHeard
<1>1. Init => ClicksInv
  BY ClicksStart
<1>2. GuiInv /\ ClicksAreCounted /\ ClicksInv /\ [Next]_vars => ClicksInv'
  BY ClicksAreKept
<1>3. ClicksInv => ClicksAreHeard
  BY DEF ClicksInv, Clicks, Rising, ClicksAreHeard
<1> QED BY <1>1, <1>2, <1>3, ViewsAreKept, PTL DEF Spec
=============================================================================
