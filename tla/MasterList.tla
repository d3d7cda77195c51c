----------------------------- MODULE MasterList -----------------------------
(***************************************************************************)
(* The list of servers: the announcements of the dedicated servers, the    *)
(* master that lists and culls them, and the browser of a client that      *)
(* asks for the list.                                                      *)
(*                                                                         *)
(* Time passes in steps, and not past the moment a server's tick announces *)
(* or the master's interval culls.  A datagram arrives within Delay or is  *)
(* lost.  The master and the browser's thread run one step at a time.      *)
(***************************************************************************)
EXTENDS Integers, FiniteSets

CONSTANTS
  Servers,      \* addresses of dedicated servers
  Master,       \* the address of the master
  NoEntry,      \* not listed, not under way
  Heartbeat,    \* steps between two announcements: 60 seconds
  Stale,        \* steps after which an entry is stale: 120 seconds
  CullEvery,    \* steps between two culls: 60 seconds
  Delay         \* bound: steps a datagram may be under way

ASSUME MasterListAssumption ==
  /\ {Heartbeat, Stale, CullEvery} \subseteq Nat \ {0}
  /\ Delay \in Nat /\ Delay < Heartbeat
  /\ Heartbeat + Delay < Stale
  /\ Master \notin Servers
  /\ NoEntry \notin Nat

VARIABLES
  up,          \* the servers that run
  sinceAnnounce,  \* steps since each server's last_announce
  flight,      \* steps each server's announcement is under way, or NoEntry
  list,        \* steps since last_seen of each server's entry, or NoEntry
  sinceCull,   \* steps since the master's last cull
  asked,       \* the replies to the browser's query, or NoEntry
  rows,        \* what the browser shows
  faithful     \* servers that ran on with no announcement lost since they were listed

listingVars == <<up, sinceAnnounce, flight, list, sinceCull, asked, rows, faithful>>

Listed == {s \in Servers : list[s] # NoEntry}

ListingInit ==
  /\ up = {} /\ faithful = {} /\ rows = {}
  /\ sinceAnnounce = [s \in Servers |-> 0]
  /\ flight = [s \in Servers |-> NoEntry]
  /\ list = [s \in Servers |-> NoEntry]
  /\ sinceCull = 0
  /\ asked = NoEntry

-----------------------------------------------------------------------------
(* A dedicated server. *)

\* The announcer's clock starts with it: the first announcement is a heartbeat away.
Start(s) ==
  /\ s \notin up
  /\ up' = up \cup {s}
  /\ sinceAnnounce' = [sinceAnnounce EXCEPT ![s] = 0]
  /\ UNCHANGED <<flight, list, sinceCull, asked, rows, faithful>>

\* The server ends without a word.
Stop(s) ==
  /\ s \in up
  /\ up' = up \ {s}
  /\ faithful' = faithful \ {s}
  /\ UNCHANGED <<sinceAnnounce, flight, list, sinceCull, asked, rows>>

\* heartbeat, in the tick at which the interval is over.
Announce(s) ==
  /\ s \in up
  /\ sinceAnnounce[s] = Heartbeat
  /\ sinceAnnounce' = [sinceAnnounce EXCEPT ![s] = 0]
  /\ flight' = [flight EXCEPT ![s] = 0]
  /\ UNCHANGED <<up, list, sinceCull, asked, rows, faithful>>

\* The network loses an announcement.
Lose(s) ==
  /\ flight[s] # NoEntry
  /\ flight' = [flight EXCEPT ![s] = NoEntry]
  /\ faithful' = faithful \ {s}
  /\ UNCHANGED <<up, sinceAnnounce, list, sinceCull, asked, rows>>

-----------------------------------------------------------------------------
(* The master. *)

\* MasterAnnounce: upsert under the address the datagram came from.
Upsert(s) ==
  /\ flight[s] # NoEntry
  /\ flight' = [flight EXCEPT ![s] = NoEntry]
  /\ list' = [list EXCEPT ![s] = 0]
  /\ faithful' = faithful \cup ({s} \cap up)
  /\ UNCHANGED <<up, sinceAnnounce, sinceCull, asked, rows>>

\* Mutants of IsFresh: an entry of exactly the limit stays, and the limit is the
\* interval of the announcements.
IsFreshAtLimit(s) == list[s] # NoEntry /\ list[s] <= Stale
IsFreshHeartbeat(s) == list[s] # NoEntry /\ list[s] < Heartbeat

\* What cull_stale retains.
IsFresh(s) == list[s] # NoEntry /\ list[s] < Stale

CullStale ==
  /\ sinceCull = CullEvery
  /\ sinceCull' = 0
  /\ list' = [s \in Servers |-> IF IsFresh(s) THEN list[s] ELSE NoEntry]
  /\ UNCHANGED <<up, sinceAnnounce, flight, asked, rows, faithful>>

-----------------------------------------------------------------------------
(* The browser. *)

\* Mutant of Answer: what is listed counts as seen.
AnswerTouches == list' = [s \in Servers |-> IF s \in Listed THEN 0 ELSE NoEntry]

\* MasterQuery: the master sends every entry and changes nothing.
Answer == UNCHANGED list

\* refresh, once at a time: a thread asks, and the master answers with all it has.
Refresh ==
  /\ asked = NoEntry
  /\ asked' = [s \in Listed |-> list[s]]
  /\ Answer
  /\ UNCHANGED <<up, sinceAnnounce, flight, sinceCull, rows, faithful>>

\* After two seconds the replies that came are the list.  The address of a row is
\* where its reply came from, the master, and of rows with one address the first
\* is kept.
ShowList ==
  /\ asked # NoEntry
  /\ \E got \in SUBSET DOMAIN asked :
       \/ got = {} /\ rows' = {}
       \/ \E s \in got : rows' = {[name |-> s, addr |-> Master, age |-> asked[s]]}
  /\ asked' = NoEntry
  /\ UNCHANGED <<up, sinceAnnounce, flight, list, sinceCull, faithful>>

-----------------------------------------------------------------------------
Later(t) == IF t = NoEntry THEN NoEntry ELSE t + 1

\* Time passes when nothing is due.
TimePasses ==
  /\ \A s \in up : sinceAnnounce[s] < Heartbeat
  /\ \A s \in Servers : flight[s] # NoEntry => flight[s] < Delay
  /\ sinceCull < CullEvery
  /\ sinceAnnounce' = [s \in Servers |-> IF s \in up THEN sinceAnnounce[s] + 1 ELSE sinceAnnounce[s]]
  /\ flight' = [s \in Servers |-> Later(flight[s])]
  /\ list' = [s \in Servers |-> Later(list[s])]
  /\ sinceCull' = sinceCull + 1
  /\ UNCHANGED <<up, asked, rows, faithful>>

ServerNext == \E s \in Servers : Start(s) \/ Stop(s) \/ Announce(s) \/ Lose(s) \/ Upsert(s)

ListingNext == ServerNext \/ CullStale \/ Refresh \/ ShowList \/ TimePasses

ListingSpec == ListingInit /\ [][ListingNext]_listingVars

\* Time passes: clocks run, intervals fire and datagrams end their way.
Progress == TimePasses \/ CullStale \/ \E s \in Servers : Announce(s) \/ Lose(s) \/ Upsert(s)

FairListingSpec == ListingSpec /\ WF_listingVars(Progress)

-----------------------------------------------------------------------------
(* Properties. *)

\* The types of the variables.
ListingTypeOK ==
  /\ up \subseteq Servers /\ faithful \subseteq up
  /\ sinceAnnounce \in [Servers -> 0 .. Heartbeat]
  /\ flight \in [Servers -> 0 .. Delay \cup {NoEntry}]
  /\ list \in [Servers -> Nat \cup {NoEntry}]
  /\ sinceCull \in 0 .. CullEvery
  /\ asked = NoEntry \/ \E S \in SUBSET Servers : asked \in [S -> Nat]
  /\ rows \subseteq [name : Servers, addr : {Master}, age : Nat]

\* A server that runs, once listed, stays listed while its announcements arrive;
\* and a row the browser shows was announced before the next cull after it went
\* stale, so no server that ended is shown for longer.
ListIsCurrent ==
  /\ faithful \subseteq Listed
  /\ \A row \in rows : row.age < Stale + CullEvery

\* A server that ended and does not come back leaves the list, however often it is
\* asked for.
DeadIsDropped == \A s \in Servers : []<>(s \in Listed => s \in up)

\* The address of a row is the server's, so that Join reaches it.  Not so: it is
\* the master's, and there is never more than one row.
JoinReachesServer == \A row \in rows : row.addr = row.name
=============================================================================
