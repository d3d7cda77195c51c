---------------------------- MODULE HookInstall ----------------------------
(***************************************************************************)
(* The bridge patches the game it is loaded into: lib.rs bridge_init and   *)
(* plugin.rs plugin_load both call hooks::install, which walks the patch   *)
(* groups below in order.  A group is written only where the bytes it      *)
(* expects stand; nothing remembers what an earlier install wrote, so the  *)
(* guards alone must keep a second install from patching a patched site.   *)
(* The code section is seen byte by byte, as the set of addresses whose    *)
(* byte no longer is the linker's; the addresses are the code's own.       *)
(***************************************************************************)
EXTENDS Integers, Sequences, FiniteSets

CONSTANT MaxLoads       \* bound on the plugin's Load calls

HookAssumption == MaxLoads \in Nat

Site(name, at, len) == [name |-> name, at |-> at, len |-> len]
Bytes(s) == s.at .. s.at + s.len - 1
RelLen == 5             \* E8 or E9 and a rel32

-----------------------------------------------------------------------------
(* The build's addresses (Fo3SteamClassic, fo3_steam_17): what a guard     *)
(* reads and what a recipe writes.                                         *)

SteamRespawnGuards ==
  { Site("siteA", \h9C43A5, 2), Site("siteB", \h8C9CE0, 6),
    Site("siteB2", \h8C9D52, 4) }

(* Mutant of SteamRespawnPatches: the byte the jump leaves over stays.      *)
SteamRespawnPatchesNoTail ==
  << Site("siteA", \h9C43A5, 2), Site("siteB", \h8C9CE0, RelLen),
     Site("siteB2", \h8C9D52, 4) >>

SteamRespawnPatches ==
  << Site("siteA", \h9C43A5, 2), Site("siteB", \h8C9CE0, RelLen),
     Site("siteBTail", \h8C9CE5, 1), Site("siteB2", \h8C9D52, 4) >>

ClassicGuards ==
  { Site("no_respawn_nop", \h6D5965, 2), Site("lock_fix", \h527F33, 4) }

(* recipes(): in the order apply() writes them.                            *)
RespawnAndDelegatorRecipes ==
  << Site("no_respawn_jnz", \h6D5965, 2),
     Site("no_respawn_jmp_nop", \h78B235, 1),
     Site("respawn_detour", \h78B230, RelLen),
     Site("delegator_push_ecx", \h6EDBD9, 1),
     Site("delegator_call_pop_ecx", \h6EDBDF, 1),
     Site("play_group_short_jmp", \h45F704, 1),
     Site("delegator_redirect", \h6EEC86, RelLen),
     Site("bethesda_delegator", \h6EDBDA, RelLen) >>

BehaviourRecipes ==
  << Site("play_idle_fix_nop", \h534D92, 2),
     Site("play_idle_detour", \h534D8D, RelLen),
     Site("anim_detour", \h73BB20, RelLen),
     Site("lock_fix_nop", \h527F33, 2),
     Site("ai_fix1_nop", \h72051E, 2),
     Site("ai_fix2_redirect", \h6FAEE8, 1),
     Site("ai_fix3_block", \h6FAF19, 6),
     Site("ai_fix4_nop", \h42FBDC, 11),
     Site("match_race_nop1", \h52F4DD, 18),
     Site("match_race_nop2", \h52F50F, 3),
     Site("match_race_patch", \h52F514, 1),
     Site("match_race_patch_nop", \h52F515, 4),
     Site("match_race_param", \hF51ADC, 1),
     Site("play_group_fix_block", \h49DCF1, 15),
     Site("play_group_fix_jmp", \h49DD6A, 2),
     Site("play_group_fix_reljump", \h49DD8E, RelLen),
     Site("av_fix", \h473D35, RelLen),
     Site("fire_fix_jmp", \h79236C, 3),
     Site("fire_fix_patch", \h7923C5, 9),
     Site("get_activate", \h78A68D, RelLen),
     Site("get_activate_ret", \h78A692, RelLen),
     Site("place_at_me", \h539785, RelLen),
     Site("place_at_me_fix", \h6F1CB6, RelLen),
     Site("place_at_me_fix_nop", \h6F1CBB, 1),
     Site("fire_weapon", \h71F05F, RelLen),
     Site("plugins_vmp", \hE10FF1, 4) >>

ClassicRecipes == RespawnAndDelegatorRecipes \o BehaviourRecipes

(* The recipe that writes back the bytes a classic image holds anyway.     *)
Rewrites == {"no_respawn_jnz"}

AiPredicateSites ==
  << Site("predClassic", \h6FAE90, RelLen), Site("predSteam", \h7D0A50, RelLen) >>

Prologue(s) == [s EXCEPT !.len = 3]

(* hooks::install: one record per guarded block of the code; "discovery"   *)
(* chooses its site itself.                                                *)
Group(name, guards, patches) ==
  [name |-> name, guards |-> guards, patches |-> patches]

SteamVaultmp ==
  << Group("ai_fix2", {Site("ai_fix2", \h7D0AA5, 6)}, <<Site("ai_fix2", \h7D0AA6, 1)>>),
     Group("ai_fix3", {Site("ai_fix3", \h7D0AD5, 6)}, <<Site("ai_fix3", \h7D0AD5, 6)>>),
     Group("match_race", {Site("match_race", \h6F7220, 14)},
           <<Site("match_race", \h6F722C, 2)>>),
     Group("ai_fix4", {Site("ai_fix4", \h63FB36, 13)}, <<Site("ai_fix4", \h63FB36, 13)>>) >>

FrameHooks ==
  << Group("fnvFrame", {Site("fnvFrame", \h86B386, 5)}, <<Site("fnvFrame", \h86B386, RelLen)>>),
     Group("fo3Frame", {Site("fo3Frame", \h6EEB2F, 5)}, <<Site("fo3Frame", \h6EEB2F, RelLen)>>),
     Group("steamFrame", {Site("steamFrame", \h9B3D77, 6)},
           <<Site("steamFrame", \h9B3D77, RelLen), Site("steamFrameTail", \h9B3D7C, 1)>>) >>

Install ==
  << Group("steam_respawn", SteamRespawnGuards, SteamRespawnPatches),
     Group("classic", ClassicGuards, ClassicRecipes) >>
  \o SteamVaultmp
  \o <<Group("discovery", {}, <<>>)>> \o FrameHooks

-----------------------------------------------------------------------------
(* A build is known by the guards its bytes satisfy.  A build the tables   *)
(* were not made for satisfies some of them: any part of one build's.  The *)
(* three bytes of the predicate's prologue open many functions, so either  *)
(* FO3 image may hold them at the other's address.                         *)

Predicates == {"predClassic", "predSteam"}
ClassicImage == {"no_respawn_nop", "lock_fix", "fo3Frame"} \cup Predicates
SteamImage == {"siteA", "siteB", "siteB2", "ai_fix2", "ai_fix3", "match_race",
               "ai_fix4", "steamFrame"} \cup Predicates
FnvImage == {"fnvFrame"}

Images == SUBSET ClassicImage \cup SUBSET SteamImage \cup {FnvImage}

VARIABLES
  image,          \* the guards the game's own bytes satisfy
  initialized,    \* INITIALIZED
  hooksInstalled, \* HOOKS_INSTALLED
  running,        \* RUNNING
  attached,       \* DllMain has seen DLL_PROCESS_ATTACH
  loads,          \* calls of plugin_load
  servers,        \* server threads started
  todo,           \* groups the running install has still to visit
  patches,        \* writes the current group has still to make
  written,        \* addresses written since the process started
  rewritten,      \* addresses written more than once
  changed,        \* addresses whose byte is not the linker's
  detour,         \* DETOUR: the sites hooked through it, at most one
  trampoline,     \* ashfall_trampoline_addr: whose prologue it leads to
  events,         \* frames the thunks pushed
  skipped         \* hooked calls of the game whose own work never ran

installVars == <<todo, patches, written, rewritten, changed, detour, trampoline>>
flagVars == <<initialized, hooksInstalled, running, attached, loads, servers>>
gameVars == <<events, skipped>>
hookVars == <<image, flagVars, installVars, gameVars>>

Kinds == {"activate", "fire"}
Detours == {"anim_detour", "av_fix", "place_at_me", "fire_weapon"}   \* RelJumpHook
Calls == {"respawn_detour", "bethesda_delegator", "play_idle_detour", "get_activate"}

(* Types.                                                                  *)
HookTypeOK ==
  /\ image \in Images
  /\ initialized \in BOOLEAN /\ hooksInstalled \in BOOLEAN
  /\ running \in BOOLEAN /\ attached \in BOOLEAN
  /\ loads \in 0..MaxLoads /\ servers \in 0..MaxLoads + 1
  /\ changed \subseteq written /\ rewritten \subseteq written
  /\ detour \subseteq Predicates /\ trampoline \in Predicates \cup {"none"}
  /\ events \subseteq Kinds /\ skipped \subseteq Detours

HookInit ==
  /\ image \in Images
  /\ initialized = FALSE /\ hooksInstalled = FALSE /\ running = TRUE
  /\ attached = FALSE /\ loads = 0 /\ servers = 0
  /\ todo = <<>> /\ patches = <<>>
  /\ written = {} /\ rewritten = {} /\ changed = {}
  /\ detour = {} /\ trampoline = "none"
  /\ events = {} /\ skipped = {}

Idle == todo = <<>> /\ patches = <<>>

(* hooks::install, run to its end on the loading thread: the game's own    *)
(* code waits for it.                                                      *)
StartInstall ==
  /\ hooksInstalled' = TRUE
  /\ todo' = Install
  /\ servers' = servers + 1
  /\ UNCHANGED <<patches, written, rewritten, changed, detour, trampoline>>

(* DllMain, DLL_PROCESS_ATTACH: bridge_init.                               *)
Attach ==
  /\ Idle /\ ~attached /\ running
  /\ attached' = TRUE
  /\ initialized' = TRUE
  /\ \/ initialized /\ UNCHANGED <<hooksInstalled, servers, installVars>>
     \/ ~initialized /\ StartInstall
  /\ UNCHANGED <<image, running, loads, gameVars>>

(* plugin_load: INITIALIZED is stored and never looked at.  The loader     *)
(* calls it in a library that is already attached, or in one built without *)
(* DllMain.                                                                *)
PluginLoad ==
  /\ Idle /\ running /\ loads < MaxLoads
  /\ loads' = loads + 1
  /\ initialized' = TRUE
  /\ StartInstall
  /\ UNCHANGED <<image, running, attached, gameVars>>

(* DllMain, DLL_PROCESS_DETACH: uninstall clears its flag and restores     *)
(* nothing.                                                                *)
Detach ==
  /\ Idle /\ attached /\ running
  /\ running' = FALSE /\ hooksInstalled' = FALSE
  /\ UNCHANGED <<image, initialized, attached, loads, servers, installVars, gameVars>>

Holds(s) == s.name \in image /\ Bytes(s) \cap changed = {}

(* A group whose guards do not all hold is left alone.                     *)
VisitGroup ==
  /\ patches = <<>> /\ todo # <<>> /\ Head(todo).name # "discovery"
  /\ todo' = Tail(todo)
  /\ patches' = IF \A s \in Head(todo).guards : Holds(s) THEN Head(todo).patches ELSE <<>>
  /\ UNCHANGED <<image, flagVars, written, rewritten, changed, detour, trampoline, gameVars>>

Overwrite(bytes) ==
  /\ written' = written \cup bytes
  /\ rewritten' = rewritten \cup (written \cap bytes)

(* Patch::apply, safe_write*, write_rel_jump, write_rel_call.              *)
WritePatch ==
  /\ patches # <<>>
  /\ patches' = Tail(patches)
  /\ LET p == Head(patches)
     IN  /\ Overwrite(Bytes(p))
         /\ changed' = IF p.name \in Rewrites THEN changed ELSE changed \cup Bytes(p)
  /\ UNCHANGED <<image, flagVars, todo, detour, trampoline, gameVars>>

(* ai_predicate_site: the first of the two addresses with the prologue.    *)
PredicateSite ==
  LET found == { i \in 1..2 : Holds(Prologue(AiPredicateSites[i])) }
  IN  IF found = {} THEN {}
      ELSE { AiPredicateSites[CHOOSE i \in found : \A j \in found : i <= j] }

AlreadyHooked == detour # {}

(* apply_actor_discovery: the trampoline is built from the bytes found at  *)
(* the site, and published before the jump is written.                     *)
Discover ==
  /\ patches = <<>> /\ todo # <<>> /\ Head(todo).name = "discovery"
  /\ todo' = Tail(todo)
  /\ \/ \* no site, a detour already, or no memory for a trampoline
        UNCHANGED <<written, rewritten, changed, detour, trampoline>>
     \/ /\ ~AlreadyHooked
        /\ \E s \in PredicateSite :
             /\ trampoline' = s.name
             /\ detour' = detour \cup {s.name}
             /\ Overwrite(Bytes(s))
             /\ changed' = changed \cup Bytes(s)
  /\ UNCHANGED <<image, flagVars, patches, gameVars>>

Hooked(name) ==
  \E i \in DOMAIN ClassicRecipes :
    ClassicRecipes[i].name = name /\ Bytes(ClassicRecipes[i]) \subseteq changed

(* The game reaches a hooked site and runs the thunk: its collector pushes *)
(* an event for a non-null object, or does nothing; then it returns.       *)
Collects(name) ==
  CASE name = "get_activate" -> {"activate"}
    [] name = "fire_weapon" -> {"fire"}
    [] OTHER -> {}

GameRuns(name) ==
  /\ Idle /\ running /\ Hooked(name)
  /\ \E object \in {"null", "ref"} :
       events' = IF object = "null" THEN events ELSE events \cup Collects(name)
  /\ skipped' = IF name \in Detours THEN skipped \cup {name} ELSE skipped
  /\ UNCHANGED <<image, flagVars, installVars>>

HookNext ==
  \/ Attach \/ PluginLoad \/ Detach
  \/ VisitGroup \/ WritePatch \/ Discover
  \/ \E name \in Detours \cup Calls : GameRuns(name)

HookSpec == HookInit /\ [][HookNext]_hookVars

-----------------------------------------------------------------------------
(* No two patches share a byte, and no install writes where an earlier one *)
(* wrote: the library is loaded by DllMain and again by the plugin loader, *)
(* and only the guards stand between the second install and code that was  *)
(* patched already.                                                        *)
WrittenOnce == rewritten = {}

(* The thunk leaves through one global address: every site that jumps to   *)
(* the thunk must be the one whose prologue that trampoline holds.  Two    *)
(* addresses satisfy the guard on some images, and a second install no     *)
(* longer finds the prologue at the first.                                 *)
TrampolineOfSite == \A s \in detour : trampoline = s

(* An instruction whose bytes one of these guards names is replaced whole  *)
(* or left alone: the five bytes of a jump over a longer one leave a tail  *)
(* the processor would run as code.  Of the other sites the code does not  *)
(* say where their instructions end, but of one it says that a jump of the *)
(* same shape crashed the game on Steam: delegator_redirect at 0x6EEC86    *)
(* (vaultmp.rs:1255-1265).                                                 *)
GuardedInstructions ==
  SteamRespawnGuards \cup {Site("fnvFrame", \h86B386, 5), Site("fo3Frame", \h6EEB2F, 5),
                           Site("steamFrame", \h9B3D77, 6)}

GuardedAreWhole ==
  patches = <<>> => \A s \in GuardedInstructions : Bytes(s) \subseteq changed \/ Bytes(s) \cap changed = {}

(* The three of them.                                                      *)
DetoursAreWhole == GuardedAreWhole /\ TrampolineOfSite /\ WrittenOnce

(* lib.rs:17 says the static flag prevents double-init if NVSE also loads  *)
(* the plugin: one server thread.                                          *)
InitOnce == servers <= 1
=============================================================================
