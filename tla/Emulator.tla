------------------------------ MODULE Emulator ------------------------------
(***************************************************************************)
(* Retro::Emulator (src/src/emulator.cpp): the C++ objects that share the  *)
(* one libretro core a process can hold.  The pointer s_loadedEmulator and *)
(* the retro_* function pointers are static, so the whole component is one *)
(* state record "host" and every member function is an operator from host  *)
(* to host; a function that calls another is the composition of the two.   *)
(*                                                                         *)
(* A shared library that is opened gets a fresh generation number.  Memory *)
(* the library hands out (its RAM, its memory map, its frame buffer) is    *)
(* named by that number, 0 being the null pointer, so a pointer into a     *)
(* library that is gone is a number other than the current generation.     *)
(* The library itself is external: its phase and the calls made in a phase *)
(* that libretro.h does not allow are recorded in phase and misuse.        *)
(***************************************************************************)
EXTENDS Naturals, FiniteSets

CONSTANTS
  Emulators,   \* the Emulator objects of the process
  Datas,       \* the GameData objects, each with one AddressSpace
  Roms,        \* ROM paths
  Cores,       \* the cores coreinfo.cpp knows
  CoreOf,      \* coreForRom: the core of a path, NoCore for an unknown extension
  Stella,      \* the core whose library_name is "Stella"
  MapsAtLoad,  \* cores that publish a memory map inside retro_load_game
  MapsAtRun,   \* cores that publish it inside the first retro_run and on reset
  Dupes,       \* cores that hand out no picture for a frame like the one before
  Keys,        \* the positions of m_buttonMask
  MaxOpens,    \* bound: dlopen calls in a behaviour
  NoEmulator, NoData, NoRom, NoCore

ASSUME CoreAssumption ==
  /\ CoreOf \in [Roms \cup {NoRom} -> Cores \cup {NoCore}]
  /\ CoreOf[NoRom] = NoCore
  /\ Stella \in Cores
  /\ MapsAtLoad \subseteq Cores \ {Stella}
  /\ MapsAtRun \subseteq Cores \ {Stella}
  /\ Dupes \subseteq Cores \ {Stella}
  /\ NoCore \notin Cores
  /\ NoRom \notin Roms
  /\ NoData \notin Datas
  /\ NoEmulator \notin Emulators
  /\ MaxOpens \in Nat

VARIABLE host

Gen == 0 .. MaxOpens

\* What a block of an AddressSpace points at: a descriptor of the memory map
\* or the RAM of the core of generation gen.
Block == [gen : Gen, view : {"map", "ram"}]

\* How far one loadRom gets: dlopen fails, the file cannot be read,
\* retro_load_game refuses it, or the game is loaded.
Outcome == {"noLibrary", "noFile", "refused", "loaded"}

(***************************************************************************)
(* The library's side: the phase in which libretro.h lets each call be     *)
(* made, and the phase the call leads to.                                  *)
(***************************************************************************)
Phases == {"closed", "mapped", "ready", "game"}

Allowed ==
  [retro_init |-> {"mapped"},   retro_deinit |-> {"ready"},
   retro_load_game |-> {"ready"}, retro_unload_game |-> {"game"},
   retro_run |-> {"game"},      retro_reset |-> {"game"},
   retro_serialize |-> {"game"}, retro_unserialize |-> {"game"},
   retro_get_memory |-> {"game"}, dlclose |-> {"mapped"}]

Calls == DOMAIN Allowed

Call(s, fn) ==
  IF s.phase \in Allowed[fn] THEN s
  ELSE [s EXCEPT !.misuse = @ \cup {<<fn, s.phase>>}]

CallTo(s, fn, phase) == [Call(s, fn) EXCEPT !.phase = phase]

(***************************************************************************)
(* The member functions.                                                   *)
(***************************************************************************)
FreshEmulator ==
  [handle |-> 0, core |-> NoCore, romLoaded |-> FALSE, romPath |-> NoRom,
   space |-> NoData, map |-> 0, img |-> 0, mask |-> {}]

ReconfigureAddressSpace(s, e) ==
  LET d == s.em[e].space
  IN IF d # NoData /\ s.em[e].map # 0 /\ s.spaces[d] = {}
     THEN [s EXCEPT !.spaces[d] = {[gen |-> s.em[e].map, view |-> "map"]}]
     ELSE s

\* RETRO_ENVIRONMENT_SET_MEMORY_MAPS: the library publishes its memory map.
SetMemoryMaps(s, e) ==
  ReconfigureAddressSpace([s EXCEPT !.em[e].map = s.gen], e)

\* Fault: the address space stays attached.
UnloadRomKeepsSpace(s, e) ==
  IF ~s.em[e].romLoaded THEN s
  ELSE [CallTo(s, "retro_unload_game", "ready") EXCEPT
          !.em[e] = [@ EXCEPT !.romLoaded = FALSE, !.romPath = NoRom,
                              !.map = 0]]

UnloadRom(s, e) ==
  IF ~s.em[e].romLoaded THEN s
  ELSE [CallTo(s, "retro_unload_game", "ready") EXCEPT
          !.em[e] = [@ EXCEPT !.romLoaded = FALSE, !.romPath = NoRom,
                              !.space = NoData, !.map = 0]]

\* Fault: s_loadedEmulator keeps naming the emulator.
UnloadCoreKeepsSingleton(s, e) ==
  IF s.em[e].handle = 0 THEN s
  ELSE LET deinit == CallTo(UnloadRom(s, e), "retro_deinit", "mapped")
       IN [CallTo(deinit, "dlclose", "closed") EXCEPT !.em[e].handle = 0]

\* Fault: the core is shut down under its game.
UnloadCoreKeepsGame(s, e) ==
  IF s.em[e].handle = 0 THEN s
  ELSE LET deinit == CallTo(s, "retro_deinit", "mapped")
       IN [CallTo(deinit, "dlclose", "closed") EXCEPT
             !.em[e].handle = 0, !.loaded = NoEmulator]

UnloadCore(s, e) ==
  IF s.em[e].handle = 0 THEN s
  ELSE LET deinit == CallTo(UnloadRom(s, e), "retro_deinit", "mapped")
       IN [CallTo(deinit, "dlclose", "closed") EXCEPT
             !.em[e].handle = 0, !.loaded = NoEmulator]

\* Fault: no check that another emulator is loaded.
LoadCoreUnguarded(s, e, core, out) ==
  IF out = "noLibrary" \/ s.gen = MaxOpens THEN s
  ELSE CallTo([s EXCEPT !.gen = @ + 1, !.phase = "mapped", !.loaded = e,
                        !.em[e] = [@ EXCEPT !.handle = s.gen + 1, !.core = core]],
              "retro_init", "ready")

LoadCore(s, e, core, out) ==
  IF s.loaded # NoEmulator \/ out = "noLibrary" \/ s.gen = MaxOpens THEN s
  ELSE CallTo([s EXCEPT !.gen = @ + 1, !.phase = "mapped", !.loaded = e,
                        !.em[e] = [@ EXCEPT !.handle = s.gen + 1, !.core = core]],
              "retro_init", "ready")

\* The tail of loadRom: read the file and give it to the core.
LoadGame(s, e, rom, out) ==
  IF out = "noFile" THEN s
  ELSE IF out # "loaded" THEN Call(s, "retro_load_game")
  ELSE LET t == CallTo(s, "retro_load_game", "game")
           p == IF CoreOf[rom] \in MapsAtLoad THEN SetMemoryMaps(t, e) ELSE t
       IN [p EXCEPT !.em[e] = [@ EXCEPT !.romLoaded = TRUE, !.romPath = rom]]

\* The core that can stay open for the next ROM stays open.
SwapCore(s, e, core) == IF s.em[e].core # core THEN UnloadCore(s, e) ELSE s

\* Fault: the answer of loadCore is ignored.
LoadRomIgnoresLoadCore(s, e, rom, out) ==
  LET core == CoreOf[rom]
      idle == UnloadRom(s, e)
      swapped == SwapCore(idle, e, core)
      open == IF swapped.em[e].handle = 0
              THEN LoadCore(swapped, e, core, out) ELSE swapped
  IN IF core = NoCore THEN idle ELSE LoadGame(open, e, rom, out)

\* loadRom answers true exactly when em[e].romLoaded holds afterwards.
LoadRom(s, e, rom, out) ==
  LET core == CoreOf[rom]
      idle == UnloadRom(s, e)
      swapped == SwapCore(idle, e, core)
      open == IF swapped.em[e].handle = 0
              THEN LoadCore(swapped, e, core, out) ELSE swapped
  IN IF core = NoCore THEN idle
     ELSE IF open.em[e].handle = 0 THEN open
     ELSE LoadGame(open, e, rom, out)

\* What the core may hand to cbVideoRefresh: a picture of its own, or none,
\* which GET_CAN_DUPE allows.
Pictures(s, e) == {s.gen} \cup {0 : core \in {s.em[e].core} \cap Dupes}

\* Fault: the picture of before is forgotten with a frame that has none.
VideoRefreshForgets(s, e, data) == [s EXCEPT !.em[e].img = data]

VideoRefresh(s, e, data) ==
  [s EXCEPT !.em[e].img = IF data # 0 THEN data ELSE @]

Run(s, e, data) ==
  LET t == Call(s, "retro_run")
      p == IF s.phase = "game" /\ s.em[e].core \in MapsAtRun /\ s.em[e].map = 0
           THEN SetMemoryMaps(t, e) ELSE t
  IN VideoRefresh(p, e, data)

\* The blocks of the attached address space are the RAM of the core alone.
AttachRam(s, e) ==
  LET d == s.em[e].space
  IN IF d = NoData THEN s
     ELSE [Call(s, "retro_get_memory") EXCEPT
             !.spaces[d] = {[gen |-> s.gen, view |-> "ram"]}]

\* Stella: the library is closed under the running game and opened again; what
\* the new loadRom answers is ignored.
Reload(s, e, out) ==
  LET shut == [CallTo(s, "dlclose", "closed") EXCEPT
                 !.em[e] = [@ EXCEPT !.handle = 0, !.romLoaded = FALSE],
                 !.loaded = NoEmulator]
  IN AttachRam(LoadRom(shut, e, s.em[e].romPath, out), e)

MapAtReset(s, e) ==
  IF s.phase = "game" /\ s.em[e].core \in MapsAtRun
  THEN SetMemoryMaps(s, e) ELSE s

Reset(s, e, out) ==
  LET clear == [s EXCEPT !.em[e].mask = {}]
      t == IF s.em[e].core = Stella THEN Reload(clear, e, out) ELSE clear
  IN Call(MapAtReset(t, e), "retro_reset")

Unserialize(s, e, out) ==
  Call(IF s.em[e].core = Stella THEN Reset(s, e, out) ELSE s,
       "retro_unserialize")

Serialize(s) == Call(s, "retro_serialize")

ConfigureData(s, e, d) ==
  LET t == ReconfigureAddressSpace(
             [s EXCEPT !.em[e].space = d, !.spaces[d] = {}], e)
  IN IF t.spaces[d] = {} /\ s.phase = "game"
     THEN [t EXCEPT !.spaces[d] = {[gen |-> s.gen, view |-> "ram"]}]
     ELSE t

\* The destructor; what is left is the slot of an object not yet constructed.
Destroy(s, e) == [UnloadCore(UnloadRom(s, e), e) EXCEPT !.em[e] = FreshEmulator]

(***************************************************************************)
(* Any C++ caller that respects the assertions of the member functions,    *)
(* which name the emulator that is loaded, and configures data only for a  *)
(* ROM that is loaded.                                                     *)
(***************************************************************************)
Init ==
  host = [loaded |-> NoEmulator, gen |-> 0, phase |-> "closed", misuse |-> {},
          em |-> [e \in Emulators |-> FreshEmulator],
          spaces |-> [d \in Datas |-> {}]]

DoLoadRom(e) ==
  \E rom \in Roms, out \in Outcome : host' = LoadRom(host, e, rom, out)
DoUnloadRom(e) == host' = UnloadRom(host, e)
DoUnloadCore(e) == host' = UnloadCore(host, e)
DoDestroy(e) == host' = Destroy(host, e)
\* Fault: keys are counted from one.
DoSetKeyOffByOne(e) ==
  \E k \in Keys, active \in BOOLEAN :
    host' = [host EXCEPT !.em[e].mask =
               IF active THEN @ \cup {k + 1} ELSE @ \ {k + 1}]

DoSetKey(e) ==
  \E k \in Keys, active \in BOOLEAN :
    host' = [host EXCEPT !.em[e].mask = IF active THEN @ \cup {k} ELSE @ \ {k}]
DoRun(e) ==
  /\ host.loaded = e
  /\ \E data \in Pictures(host, e) : host' = Run(host, e, data)
DoReset(e) ==
  host.loaded = e /\ \E out \in Outcome : host' = Reset(host, e, out)
DoUnserialize(e) ==
  host.loaded = e /\ \E out \in Outcome : host' = Unserialize(host, e, out)
DoSerialize(e) == host.loaded = e /\ host' = Serialize(host)
DoConfigureData(e) ==
  /\ host.em[e].romLoaded
  /\ \E d \in Datas : host' = ConfigureData(host, e, d)

\* A call into a library that is closed, or Stella asked for the RAM of a
\* console it does not have, ends the process.
Crashed(s) ==
  \E m \in s.misuse : m[2] = "closed" \/ m[1] = "retro_get_memory"

Next ==
  /\ ~Crashed(host)
  /\ \E e \in Emulators :
       \/ DoLoadRom(e) \/ DoUnloadRom(e) \/ DoUnloadCore(e) \/ DoDestroy(e)
       \/ DoSetKey(e) \/ DoRun(e) \/ DoReset(e) \/ DoUnserialize(e)
       \/ DoSerialize(e) \/ DoConfigureData(e)

Spec == Init /\ [][Next]_host
-----------------------------------------------------------------------------
EmulatorState ==
  [handle : Gen, core : Cores \cup {NoCore}, romLoaded : BOOLEAN,
   romPath : Roms \cup {NoRom}, space : Datas \cup {NoData}, map : Gen,
   img : Gen, mask : SUBSET Keys]

\* The fields of the host record have the types of the members they model
\* (class Emulator, emulator.h).
Typed(s) ==
  s \in [loaded : Emulators \cup {NoEmulator}, gen : Gen, phase : Phases,
        misuse : SUBSET (Calls \X Phases),
        em : [Emulators -> EmulatorState],
        spaces : [Datas -> SUBSET Block]]

TypeOK == Typed(host)

\* s_loadedEmulator names the emulator whose m_coreHandle is open and nobody
\* else has one open; it is the library that was opened last, and the phase
\* of that library is the one m_romLoaded tells (loadRom, loadCore,
\* unloadRom, unloadCore, reset).
OwnsCore(s, e) ==
  /\ s.em[e].handle # 0 <=> s.loaded = e
  /\ s.em[e].handle # 0 =>
       /\ s.em[e].handle = s.gen
       /\ s.em[e].core \in Cores
       /\ s.phase = IF s.em[e].romLoaded THEN "game" ELSE "ready"
  /\ s.em[e].romLoaded =>
       /\ s.em[e].handle # 0
       /\ CoreOf[s.em[e].romPath] = s.em[e].core

SingleOwner ==
  /\ \A e \in Emulators : OwnsCore(host, e)
  /\ host.loaded = NoEmulator => host.phase = "closed"

\* While a ROM is loaded, every block of the address space that configureData
\* attached points into the library that is open now: reloading Stella,
\* republishing a memory map and swapping cores leave no block behind that
\* points into a closed library.
Attached(s, e) ==
  s.em[e].romLoaded /\ s.em[e].space # NoData =>
    \A b \in s.spaces[s.em[e].space] : b.gen = s.em[e].handle

AttachedIsLive == \A e \in Emulators : Attached(host, e)

\* The lifecycle calls come in the order libretro.h gives (init, load_game,
\* unload_game, deinit, and the library closed last) whatever the caller
\* does; the one exception is the dlclose inside reset().
Lifecycle(s) ==
  \A m \in s.misuse :
    /\ m[1] \notin {"retro_init", "retro_load_game", "retro_unload_game",
                    "retro_deinit"}
    /\ m[1] = "dlclose" => m[2] \in {"ready", "game"}

LifecycleLegal == Lifecycle(host)

\* Only the calls that reset() and unserialize() make after a reload that
\* failed reach a library that is closed.
ClosedLibraryCalls ==
  \A m \in host.misuse :
    m[2] = "closed" =>
      m[1] \in {"retro_get_memory", "retro_reset", "retro_unserialize"}

\* loadRom on one emulator while another one is loaded fails without touching
\* the other one or the library (loadCore's check of s_loadedEmulator).
SecondLoadRefused ==
  [][\A e, o \in Emulators :
       o # e /\ host.loaded = o /\ DoLoadRom(e) =>
         /\ ~host'.em[e].romLoaded
         /\ host'.em[o] = host.em[o]
         /\ host'.loaded = o /\ host'.phase = host.phase
         /\ host'.spaces = host.spaces]_host
=============================================================================
