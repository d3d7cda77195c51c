----------------------------- MODULE ServerGui -----------------------------
(***************************************************************************)
(* The interface the scripts of the server draw on the players' screens.   *)
(* A script creates, changes and removes widgets; each call becomes a      *)
(* packet that goes at the next tick to whoever is in the game by then.    *)
(* The server keeps no widgets: a client has what its packets made, shows  *)
(* the part of it that hangs below a top window, and sends the clicks on   *)
(* it back to the scripts.  A click is lost when the client cannot send it *)
(* or the server has no session left for it; one that is lost on the way   *)
(* holds the rest of its connection back (Uplink), and here just stays on  *)
(* the way, for nothing says that what is on the way arrives.              *)
(*                                                                         *)
(* Checkboxes and radio buttons behave as buttons do here, edits as        *)
(* buttons pressed in every frame, and texts as lists with no items; of a  *)
(* widget's attributes the model keeps whether it is visible.              *)
(***************************************************************************)
EXTENDS Integers, Sequences

CONSTANTS
  Clients,
  MaxWidgets,  \* bound: widgets created in one behaviour
  MaxCalls,    \* bound: calls that change or remove a widget
  MaxClicks,   \* bound: clicks a player makes
  MaxLeaves    \* bound: connections a client ends

ASSUME ServerGuiAssumption ==
  {MaxWidgets, MaxCalls, MaxClicks, MaxLeaves} \subseteq Nat

Ids == 1 .. MaxWidgets
NoParent == 0
Kinds == {"Window", "Button", "List", "ListItem"}

VARIABLES
  lastId, calls,  \* ids given out, and calls on widgets so far
  wanted,    \* history: the widgets the scripts have, as they think of them
  queue,     \* packets waiting for the next tick
  sent,      \* the last id a tick has announced
  inGame,
  wire,      \* packets each client has still to read
  gui,       \* each client's widgets and unsent clicks
  up,        \* clicks of each client on their way to the server
  from,      \* ids announced before the client's connection
  leaves,    \* connections each client has ended
  made, heard, lost  \* history: clicks of each player so far, a click being its
             \* number, those the scripts heard of and those nobody will

scripts == <<lastId, calls, wanted>>
screen == <<wire, gui, from, leaves>>
clicked == <<up, made, heard, lost>>
vars == <<scripts, queue, sent, inGame, screen, clicked>>

Absent == [kind |-> "absent"]
Widget(kind, parent) == [kind |-> kind, parent |-> parent, visible |-> TRUE]

\* Packets.
New(id, kind, parent) == [op |-> "new", id |-> id, widget |-> Widget(kind, parent)]
Gone(id) == [op |-> "remove", id |-> id]
SetVisible(id, b) == [op |-> "visible", id |-> id, value |-> b]

(***************************************************************************)
(* The scripts.                                                            *)
(***************************************************************************)
Push(packet) == queue' = Append(queue, packet)

\* Scripts put items into lists and all else into windows. They may name a
\* widget they have removed: what they put there hangs below nothing.
Parents(kind) ==
  LET holder == IF kind = "ListItem" THEN "List" ELSE "Window"
  IN {w \in 1 .. lastId : wanted[w].kind \in {"absent", holder}}
       \cup (IF kind = "Window" THEN {NoParent} ELSE {})

Create(kind, parent) ==
  /\ lastId < MaxWidgets
  /\ parent \in Parents(kind)
  /\ lastId' = lastId + 1
  /\ wanted' = [wanted EXCEPT ![lastId + 1] =
       IF parent # NoParent /\ wanted[parent] = Absent THEN Absent ELSE Widget(kind, parent)]
  /\ Push(New(lastId + 1, kind, parent))
  /\ UNCHANGED <<calls, sent, inGame, screen, clicked>>

\* What goes when widget id goes: all that hangs below it.
Below(id) ==
  LET Closed(S) == \A w \in Ids : wanted[w] # Absent /\ wanted[w].parent \in S => w \in S
  IN {w \in Ids : \A S \in SUBSET Ids : id \in S /\ Closed(S) => w \in S}

Call ==
  /\ calls < MaxCalls
  /\ calls' = calls + 1
  /\ UNCHANGED <<lastId, sent, inGame, screen, clicked>>

\* destroy_window and remove_list_item.
Destroy(id) ==
  /\ id <= lastId
  /\ Call
  /\ wanted' = [w \in Ids |-> IF w \in Below(id) THEN Absent ELSE wanted[w]]
  /\ Push(Gone(id))

Show(id, b) ==
  /\ id <= lastId
  /\ Call
  /\ wanted' = IF wanted[id] = Absent THEN wanted ELSE [wanted EXCEPT ![id].visible = b]
  /\ Push(SetVisible(id, b))

(***************************************************************************)
(* The server.                                                             *)
(***************************************************************************)

Tick ==
  /\ queue # <<>>
  /\ wire' = [c \in Clients |-> IF c \in inGame THEN wire[c] \o queue ELSE wire[c]]
  /\ queue' = <<>>
  /\ sent' = lastId
  /\ UNCHANGED <<scripts, inGame, gui, from, leaves, clicked>>

\* Nobody tells a new player of the widgets there are.
Join(c) ==
  /\ c \notin inGame
  /\ inGame' = inGame \cup {c}
  /\ from' = [from EXCEPT ![c] = sent]
  /\ UNCHANGED <<scripts, queue, sent, wire, gui, leaves, clicked>>

Numbers(clicks) == {clicks[i] : i \in DOMAIN clicks}

\* The player leaves, or the server culls a session it has not heard from;
\* what is on its way to the server finds none. The client keeps its widgets
\* and its unsent clicks.
Leave(c) ==
  /\ c \in inGame
  /\ leaves[c] < MaxLeaves
  /\ leaves' = [leaves EXCEPT ![c] = @ + 1]
  /\ inGame' = inGame \ {c}
  /\ wire' = [wire EXCEPT ![c] = <<>>]
  /\ up' = [up EXCEPT ![c] = <<>>]
  /\ lost' = [lost EXCEPT ![c] = @ \cup Numbers(up[c])]
  /\ UNCHANGED <<scripts, queue, sent, gui, from, made, heard>>

(***************************************************************************)
(* The client.                                                             *)
(***************************************************************************)
Nothing == [widgets |-> [id \in Ids |-> Absent], items |-> [id \in Ids |-> <<>>],
            clicks |-> <<>>]

\* A list item is noted in the list it is for, if there is one.
ApplyNew(g, p) ==
  LET container == p.widget.parent
      listed == p.widget.kind = "ListItem" /\ g.widgets[container] # Absent
      items == [g.items EXCEPT ![p.id] = <<>>]
  IN [g EXCEPT
       !.items = IF listed THEN [items EXCEPT ![container] = Append(@, p.id)] ELSE items,
       !.widgets = [@ EXCEPT ![p.id] = p.widget]]

\* Only the widget itself goes: what hangs below it stays, and a list keeps
\* the ids of its items.
ApplyRemove(g, p) == [g EXCEPT !.widgets = [@ EXCEPT ![p.id] = Absent]]

\* Mutant of ApplyVisible: what is shown is never hidden again.
ApplyVisibleOnly(g, p) ==
  IF g.widgets[p.id] = Absent \/ ~p.value THEN g ELSE [g EXCEPT !.widgets[p.id].visible = TRUE]

ApplyVisible(g, p) ==
  IF g.widgets[p.id] = Absent THEN g ELSE [g EXCEPT !.widgets[p.id].visible = p.value]

apply_packet(g, p) ==
  CASE p.op = "new" -> ApplyNew(g, p)
    [] p.op = "remove" -> ApplyRemove(g, p)
    [] p.op = "visible" -> ApplyVisible(g, p)

Read(c) ==
  /\ wire[c] # <<>>
  /\ gui' = [gui EXCEPT ![c] = apply_packet(@, Head(wire[c]))]
  /\ wire' = [wire EXCEPT ![c] = Tail(@)]
  /\ UNCHANGED <<scripts, queue, sent, inGame, from, leaves, clicked>>

\* The windows with no parent; one below another is not drawn.
TopWindows(widgets) ==
  {w \in Ids : widgets[w] # Absent /\ widgets[w].kind = "Window"
                 /\ widgets[w].parent = NoParent}

\* A closed window draws none of its children.
Drawn(widgets) ==
  {w \in Ids : /\ widgets[w] # Absent
               /\ widgets[w].visible
               /\ widgets[w].kind # "Window"
               /\ \E top \in TopWindows(widgets) :
                    widgets[top].visible /\ widgets[w].parent = top}

\* The items of a list that are drawn, by their places in it.
Lines(g, list) == {k \in DOMAIN g.items[list] : g.widgets[g.items[list][k]] # Absent}

\* The player presses a button that is drawn; its id is what the click says.
Frame(c) ==
  /\ \E id \in Drawn(gui[c].widgets) : gui[c].widgets[id].kind = "Button"
  /\ made[c] < MaxClicks
  /\ made' = [made EXCEPT ![c] = @ + 1]
  /\ gui' = [gui EXCEPT ![c].clicks = Append(@, made[c] + 1)]
  /\ UNCHANGED <<scripts, queue, sent, inGame, wire, from, leaves, up, heard, lost>>

\* Mutant of FlushClicks: clicks are forgotten when they could be sent.
FlushClicksKeeps(c) ==
  /\ gui[c].clicks # <<>>
  /\ Len(up[c]) < MaxClicks
  /\ \E n \in 0 .. Len(gui[c].clicks) :
       LET arriving == IF c \in inGame THEN n ELSE 0
       IN /\ up' = [up EXCEPT ![c] = @ \o SubSeq(gui[c].clicks, 1, arriving)]
          /\ gui' = IF arriving = Len(gui[c].clicks) THEN [gui EXCEPT ![c].clicks = <<>>] ELSE gui
  /\ UNCHANGED <<scripts, queue, sent, inGame, wire, from, leaves, made, heard, lost>>

\* All clicks are taken from the list, and the first send that fails drops
\* the rest of them. A culled client does not know that the server throws
\* them away.
FlushClicks(c) ==
  /\ gui[c].clicks # <<>>
  /\ gui' = [gui EXCEPT ![c].clicks = <<>>]
  /\ \E n \in 0 .. Len(gui[c].clicks) :
       LET arriving == IF c \in inGame THEN n ELSE 0
       IN /\ up' = [up EXCEPT ![c] = @ \o SubSeq(gui[c].clicks, 1, arriving)]
          /\ lost' = [lost EXCEPT
               ![c] = @ \cup {gui[c].clicks[i] : i \in arriving + 1 .. Len(gui[c].clicks)}]
  /\ UNCHANGED <<scripts, queue, sent, inGame, wire, from, leaves, made, heard>>

\* The server asks nobody whether there is such a widget, answers the sender
\* and tells the scripts.
HearClick(c) ==
  /\ up[c] # <<>>
  /\ up' = [up EXCEPT ![c] = Tail(@)]
  /\ heard' = [heard EXCEPT ![c] = Append(@, Head(up[c]))]
  /\ UNCHANGED <<scripts, queue, sent, inGame, screen, made, lost>>

(***************************************************************************)
(* The specification.                                                      *)
(***************************************************************************)
Init ==
  /\ lastId = 0 /\ calls = 0
  /\ wanted = [id \in Ids |-> Absent]
  /\ queue = <<>>
  /\ sent = 0
  /\ inGame = {}
  /\ wire = [c \in Clients |-> <<>>]
  /\ gui = [c \in Clients |-> Nothing]
  /\ from = [c \in Clients |-> 0]
  /\ leaves = [c \in Clients |-> 0]
  /\ up = [c \in Clients |-> <<>>]
  /\ made = [c \in Clients |-> 0]
  /\ heard = [c \in Clients |-> <<>>]
  /\ lost = [c \in Clients |-> {}]

Script ==
  \/ \E kind \in Kinds, parent \in Ids \cup {NoParent} : Create(kind, parent)
  \/ \E id \in Ids : Destroy(id)
  \/ \E id \in Ids, b \in BOOLEAN : Show(id, b)

Next ==
  \/ Script \/ Tick
  \/ \E c \in Clients :
       Join(c) \/ Leave(c) \/ Read(c) \/ Frame(c) \/ FlushClicks(c) \/ HearClick(c)

Spec == Init /\ [][Next]_vars

(***************************************************************************)
(* Properties.                                                             *)
(***************************************************************************)
TypeOK ==
  /\ lastId \in 0 .. MaxWidgets /\ sent \in 0 .. lastId
  /\ \A c \in Clients, id \in Ids :
       /\ Len(gui[c].items[id]) <= MaxWidgets
       /\ gui[c].widgets[id] # Absent => id <= sent
  /\ inGame \subseteq Clients
  /\ \A c \in Clients \ inGame : wire[c] = <<>>

\* The client has never been away and has read all there is.
IsUpToDate(c) == c \in inGame /\ leaves[c] = 0 /\ wire[c] = <<>> /\ queue = <<>>

\* The top window a widget of the scripts hangs below.
TopOf(id) == CHOOSE top \in TopWindows(wanted) : wanted[id].parent = top

\* A client that is up to date draws what the scripts have in the windows
\* created since it came, and nothing else: what a removed window leaves
\* behind never comes back to the screen. Each list it draws has the items the
\* scripts gave it and have not taken back, in the order they were given.
ScreenIsWanted ==
  \A c \in Clients : IsUpToDate(c) =>
    /\ Drawn(gui[c].widgets) = {id \in Drawn(wanted) : TopOf(id) > from[c]}
    /\ \A list \in Drawn(gui[c].widgets) : gui[c].widgets[list].kind = "List" =>
         LET item == gui[c].items[list]
             lines == Lines(gui[c], list)
         IN /\ {item[k] : k \in lines} =
                 {i \in Ids : wanted[i].kind = "ListItem" /\ wanted[i].parent = list}
            /\ \A j, k \in lines : j < k => item[j] < item[k]

\* The scripts hear of a player's clicks in the order they were made, of none
\* twice; and the clicks they will never hear of are those nobody holds any
\* more: what a failed send dropped, and what found no session at the server.
ClicksAreHeard ==
  \A c \in Clients :
    /\ \A i, j \in DOMAIN heard[c] : i < j => heard[c][i] < heard[c][j]
    /\ lost[c] = (1 .. made[c])
                   \ (Numbers(heard[c]) \cup Numbers(up[c]) \cup Numbers(gui[c].clicks))
=============================================================================
