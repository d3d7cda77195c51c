----------------------------- MODULE EsmImport -----------------------------
(***************************************************************************)
(* The import of a plugin of the game into the server's database, and what *)
(* a server takes from the database when it starts.  A plugin is a header  *)
(* and a sequence of groups; a group holds records and further groups, and *)
(* the importer walks the file with a reader that only goes forward,       *)
(* keeping the world and the cell whose groups it is in.  All rows of one  *)
(* plugin go into one transaction.                                         *)
(*                                                                         *)
(* A file is measured in units: the header of a group or of a record is    *)
(* one, and so is each subrecord.  The sizes written in a file are right,  *)
(* but the file may have been cut off; its compressed records may be       *)
(* corrupt.  A form is <<load order byte, number>>.                        *)
(***************************************************************************)
EXTENDS Integers, Sequences, SequencesExt

CONSTANTS
  Plugins,     \* a sequence of [dlc, groups]; a DLC's own forms have byte 1
  Indices,     \* load order bytes given to DLCs
  MaxImports,  \* bound: imports begun
  MaxStarts    \* bound: starts of the server

EsmImportAssumption ==
  /\ Indices \subseteq Nat \ {0}
  /\ MaxImports \in Nat /\ MaxStarts \in Nat

VARIABLES
  db,         \* the rows committed
  begun, starts,
  importing,  \* "no", "header" or "groups"
  plugin, index,           \* what is being imported: the number of the plugin
  length,                  \* the units its file still has
  pos, ends,               \* the reader, and where the groups it is in end
  world_ctx, cell_ctx,
  txn,        \* the rows as the transaction sees them
  stages,     \* the quest manager of the server that runs
  imported, loaded  \* history: imports committed, and those the server saw

source == <<plugin, index, length>>
reader == <<pos, ends, world_ctx, cell_ctx>>
server == <<starts, stages, loaded>>
importVars == <<db, begun, importing, source, reader, txn, server, imported>>

NoForm == <<0, 0>>

(***************************************************************************)
(* Plugins and their files.                                                *)
(***************************************************************************)
Group(type, label, kids) == [unit |-> "GRUP", type |-> type, label |-> label, kids |-> kids]
\* zip: "no", or how a compressed record is: "ok", "corrupt" or "short".
Record(kind, form, arg, zip) ==
  [unit |-> kind, form |-> form, arg |-> arg, zip |-> zip, size |-> 1]
Subrecord == [unit |-> "sub"]
Header == <<[unit |-> "TES4", size |-> 1], Subrecord>>

RECURSIVE Units(_)
Units(node) ==
  IF node.unit # "GRUP" THEN <<node, Subrecord>>
  ELSE LET body == FlattenSeq([i \in DOMAIN node.kids |-> Units(node.kids[i])])
       IN <<[unit |-> "GRUP", type |-> node.type, label |-> node.label,
             size |-> 1 + Len(body)]>> \o body

FileOf(groups) == Header \o FlattenSeq([i \in DOMAIN groups |-> Units(groups[i])])

File == [p \in DOMAIN Plugins |-> FileOf(Plugins[p].groups)]

(***************************************************************************)
(* Records and rows.                                                       *)
(***************************************************************************)
\* A DLC calls its own forms by byte 1, those of the base game by byte 0.
remap(ix, form) == IF ix # 0 /\ form[1] = 1 THEN <<ix, form[2]>> ELSE form

Row(table, key, data) == [table |-> table, key |-> key, data |-> data]

\* INSERT OR REPLACE.
Insert(rows, row) ==
  {r \in rows : r.table # row.table \/ r.key # row.key} \cup {row}

NpcRows(form, race) == <<Row("npcs", form, race)>>
RefRows(form, base, cell) == <<Row("refs", form, [base |-> base, cell |-> cell])>>
QuestRows(form, known) == [i \in DOMAIN known |-> Row("quest_stages", <<form, known[i]>>, 0)]

\* An exterior cell has coordinates; an interior one counts if it has a name.
CellRows(form, arg, world) ==
  CASE arg.at # "inside" -> <<Row("exteriors", <<world, arg.at>>, 0)>>
    [] arg.at = "inside" /\ arg.name # "" -> <<Row("interiors", form, arg.name)>>
    [] OTHER -> <<>>

\* The rows of a record found in a world and a cell.  Weapons, races, items,
\* containers, terminals, factions and all other records are as "other" is.
import_record(r, ix, world, cell) ==
  LET form == remap(ix, r.form)
  IN CASE r.unit = "NPC_" -> NpcRows(form, remap(ix, r.arg))
       [] r.unit = "REFR" -> RefRows(form, remap(ix, r.arg), cell)
       [] r.unit = "QUST" -> QuestRows(form, r.arg)
       [] r.unit = "CELL" -> CellRows(form, r.arg, world)
       [] OTHER -> <<Row("records", form, r.arg)>>

(***************************************************************************)
(* The import.                                                             *)
(***************************************************************************)
\* The base game keeps its forms; a DLC gets a byte.
Begin ==
  /\ importing = "no"
  /\ begun < MaxImports
  /\ begun' = begun + 1
  /\ importing' = "header"
  /\ \E p \in DOMAIN Plugins :
       \E ix \in IF Plugins[p].dlc THEN Indices ELSE {0}, cut \in 0 .. Len(File[p]) :
         plugin' = p /\ index' = ix /\ length' = cut
  /\ pos' = 1 /\ ends' = <<>>
  /\ world_ctx' = NoForm /\ cell_ctx' = NoForm
  /\ txn' = db
  /\ UNCHANGED <<db, server, imported>>

Unit(i) == File[plugin][i]

\* Of a header that is cut off only the first unit is read.
ReadHeader ==
  /\ importing = "header"
  /\ importing' = "groups"
  /\ pos' = CASE length = 0 -> 1
              [] length > 0 /\ 1 + Unit(1).size > length -> 2
              [] OTHER -> 2 + Unit(1).size
  /\ UNCHANGED <<db, begun, source, ends, world_ctx, cell_ctx, txn, server, imported>>

End == IF ends = <<>> THEN length + 1 ELSE Last(ends)
At(unit) == importing = "groups" /\ pos < End /\ Unit(pos).unit = unit

\* Nothing of the plugin stays.
Rollback ==
  /\ importing' = "no"
  /\ txn' = {}
  /\ UNCHANGED <<db, begun, source, reader, server, imported>>

FailTop == importing = "groups" /\ ends = <<>> /\ pos < End /\ ~At("GRUP") /\ Rollback
\* A compressed record too short for the length it begins with.
FailRecord ==
  importing = "groups" /\ ends # <<>> /\ pos < End /\ ~At("GRUP")
    /\ Unit(pos).zip = "short" /\ Rollback
FailGroup == At("GRUP") /\ pos + Unit(pos).size > length + 1 /\ Rollback

\* Mutant of OpenGroup: the groups of a cell leave the cell as it is.
OpenNoCell ==
  /\ At("GRUP")
  /\ pos + Unit(pos).size <= length + 1
  /\ ends' = Append(ends, pos + Unit(pos).size)
  /\ pos' = pos + 1
  /\ world_ctx' = IF Unit(pos).type = "world" THEN remap(index, Unit(pos).label) ELSE world_ctx
  /\ UNCHANGED <<db, begun, importing, source, cell_ctx, txn, server, imported>>

\* The label of a group of the children of a world or a cell names it; the
\* group of a cell's temporary children is inside that of all its children.
OpenGroup ==
  LET group == Unit(pos)
  IN /\ At("GRUP")
     /\ pos + group.size <= length + 1
     /\ ends' = Append(ends, pos + group.size)
     /\ pos' = pos + 1
     /\ world_ctx' = IF group.type = "world" THEN remap(index, group.label) ELSE world_ctx
     /\ cell_ctx' = IF group.type \in {"cell", "persistent", "distant"}
                    THEN remap(index, group.label) ELSE cell_ctx
     /\ UNCHANGED <<db, begun, importing, source, txn, server, imported>>

CloseGroup ==
  /\ importing = "groups" /\ ends # <<>> /\ pos >= End
  /\ pos' = End
  /\ ends' = Front(ends)
  /\ UNCHANGED <<db, begun, importing, source, world_ctx, cell_ctx, txn, server, imported>>

\* A compressed record that is corrupt is left out, and the import goes on.
ParseRecord ==
  LET r == Unit(pos)
  IN /\ importing = "groups" /\ ends # <<>> /\ pos < End /\ ~At("GRUP")
     /\ r.zip # "short"
     /\ pos' = pos + 1 + r.size
     /\ txn' = IF r.zip = "corrupt" THEN txn
               ELSE FoldLeft(Insert, txn, import_record(r, index, world_ctx, cell_ctx))
     /\ UNCHANGED <<db, begun, importing, source, ends, world_ctx, cell_ctx, server, imported>>

Commit ==
  /\ importing = "groups" /\ ends = <<>> /\ pos >= End
  /\ db' = txn
  /\ imported' = Append(imported, [plugin |-> plugin, index |-> index, length |-> length])
  /\ importing' = "no"
  /\ txn' = {}
  /\ UNCHANGED <<begun, source, reader, server>>

\* The importer dies: SQLite undoes the open transaction.
Crash == importing # "no" /\ Rollback

(***************************************************************************)
(* The server.                                                             *)
(***************************************************************************)

\* A server may start while a plugin is imported; it sees what is committed.
\* The rows are the stages a quest has, and every quest starts at stage 0.
StartServer ==
  /\ starts < MaxStarts
  /\ starts' = starts + 1
  /\ stages' = [q \in {r.key[1] : r \in {r \in db : r.table = "quest_stages"}} |-> 0]
  /\ loaded' = imported
  /\ UNCHANGED <<db, begun, importing, source, reader, txn, imported>>

(***************************************************************************)
(* The specification.                                                      *)
(***************************************************************************)
ImportInit ==
  /\ db = {} /\ txn = {}
  /\ begun = 0 /\ starts = 0
  /\ importing = "no"
  /\ plugin = 1 /\ index = 0 /\ length = 0
  /\ pos = 1 /\ ends = <<>>
  /\ world_ctx = NoForm /\ cell_ctx = NoForm
  /\ stages = <<>>
  /\ imported = <<>> /\ loaded = <<>>

Step == ReadHeader \/ FailTop \/ FailGroup \/ FailRecord \/ OpenGroup \/ CloseGroup \/ ParseRecord \/ Commit

ImportNext ==
  Begin \/ Step \/ Crash \/ StartServer

ImportSpec == ImportInit /\ [][ImportNext]_importVars

(***************************************************************************)
(* Properties.                                                             *)
(***************************************************************************)
ImportTypeOK ==
  /\ importing \in {"no", "header", "groups"}
  /\ \A i \in 1 .. Len(ends) - 1 : ends[i + 1] <= ends[i]
  /\ importing = "groups" => pos <= length + 2
  /\ \A r, s \in db : r.table = s.table /\ r.key = s.key => r = s

\* The rows of a node by the groups it is in, whatever order they come in.
RECURSIVE RowsOf(_, _, _, _)
RowsOf(node, ix, world, cell) ==
  IF node.unit # "GRUP"
  THEN IF node.zip = "corrupt" THEN <<>> ELSE import_record(node, ix, world, cell)
  ELSE LET w == IF node.type = "world" THEN remap(ix, node.label) ELSE world
           c == IF node.type \in {"cell", "persistent", "temporary", "distant"}
                THEN remap(ix, node.label) ELSE cell
       IN FlattenSeq([i \in DOMAIN node.kids |-> RowsOf(node.kids[i], ix, w, c)])

PluginRows == [p \in DOMAIN Plugins |-> [ix \in Indices \cup {0} |->
  [n \in DOMAIN Plugins[p].groups |-> RowsOf(Plugins[p].groups[n], ix, NoForm, NoForm)]]]
PluginLength == [p \in DOMAIN Plugins |->
  [n \in DOMAIN Plugins[p].groups |-> Len(FileOf(SubSeq(Plugins[p].groups, 1, n)))]]

\* The rows of the groups that the imported file still had.
RowsOfImport(i) ==
  FlattenSeq([n \in DOMAIN PluginLength[i.plugin] |->
    IF PluginLength[i.plugin][n] <= i.length THEN PluginRows[i.plugin][i.index][n] ELSE <<>>])

\* The database is what the plugins imported to their end say, the later ones
\* over the earlier: each reference in the cell and each cell in the world it
\* is filed under, and of an import that failed or was killed nothing.
DbIsPlugins ==
  db = FoldLeft(LAMBDA rows, i : FoldLeft(Insert, rows, RowsOfImport(i)), {}, imported)

\* Importing a DLC changes no row of another one that has a byte of its own:
\* all the DLCs of a load order fit in one database.
DlcsStayApart ==
  \A i, j \in DOMAIN imported :
    i < j /\ imported[i].index # imported[j].index =>
      \A row \in Range(RowsOfImport(imported[i])) :
        row.table \in {"npcs", "refs", "interiors", "records"} /\ row.key[1] # 0 =>
          \/ row \in db
          \/ \E k \in i + 1 .. Len(imported) : imported[k].index = imported[i].index

\* A server knows the quests of the plugins that were complete when it
\* started, and each is unstarted however many stages it has.
QuestsStartUnstarted ==
  stages = [q \in {row.key[1] : row \in {row \in UNION {Range(RowsOfImport(loaded[i])) : i \in DOMAIN loaded} :
                                          row.table = "quest_stages"}} |-> 0]
=============================================================================
