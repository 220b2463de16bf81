--------------------------- MODULE EmulatorProofs ---------------------------
(***************************************************************************)
(* What Emulator, and what the Python binding and RetroEnv make of it,     *)
(* promise for any number of emulators, environments, data objects, ROMs   *)
(* and cores.  The invariants are predicates on a host record, so that the *)
(* lemmas follow the code: one for every member function, cited by the     *)
(* lemma of the function that calls it.  Three parts: the owner of the     *)
(* library and the life of the library, the address spaces that are        *)
(* attached to it, and the environments of Python.                         *)
(***************************************************************************)
EXTENDS PyEmulator, TLAPS

(***************************************************************************)
(* Part 1.  One emulator owns the library.                                 *)
(***************************************************************************)
\* Ownership of the one library, on the host record.
OwnerInv(s) ==
  /\ Typed(s)
  /\ \A e \in Emulators : OwnsCore(s, e)
  /\ s.loaded = NoEmulator => s.phase = "closed"
  /\ Lifecycle(s)

\* A libretro call changes the phase and the record of misuse only.
LEMMA CallEffect ==
  ASSUME NEW s, Typed(s), NEW fn \in Calls, NEW p \in Phases
  PROVE /\ Typed(Call(s, fn)) /\ Typed(CallTo(s, fn, p))
        /\ Call(s, fn).phase = s.phase /\ CallTo(s, fn, p).phase = p
        /\ Call(s, fn).em = s.em /\ CallTo(s, fn, p).em = s.em
        /\ Call(s, fn).loaded = s.loaded /\ CallTo(s, fn, p).loaded = s.loaded
        /\ Call(s, fn).gen = s.gen /\ CallTo(s, fn, p).gen = s.gen
        /\ Call(s, fn).spaces = s.spaces /\ CallTo(s, fn, p).spaces = s.spaces
  BY DEF Typed, Call, CallTo

\* A call made in its phase is no misuse; one that is no lifecycle call, or a
\* dlclose of a library that has been initialised, may be one.
LEMMA CallLifecycle ==
  ASSUME NEW s, Typed(s), Lifecycle(s), NEW fn \in Calls, NEW p \in Phases,
         \/ s.phase \in Allowed[fn]
         \/ fn \in {"retro_run", "retro_reset", "retro_serialize",
                   "retro_unserialize", "retro_get_memory"}
         \/ fn = "dlclose" /\ s.phase \in {"ready", "game"}
  PROVE Lifecycle(Call(s, fn)) /\ Lifecycle(CallTo(s, fn, p))
  <1>1. Call(s, fn).misuse = s.misuse \/
          /\ Call(s, fn).misuse = s.misuse \cup {<<fn, s.phase>>}
          /\ s.phase \notin Allowed[fn]
    BY DEF Typed, Call
  <1>2. CallTo(s, fn, p).misuse = Call(s, fn).misuse
    BY CallEffect DEF CallTo, Typed
  <1>3. Lifecycle(Call(s, fn))
    BY <1>1 DEF Lifecycle
  <1> QED BY <1>2, <1>3 DEF Lifecycle

\* Writing one emulator's fields.
LEMMA PutEmulator ==
  ASSUME NEW s, Typed(s), NEW e \in Emulators, NEW r \in EmulatorState
  PROVE LET u == [s EXCEPT !.em[e] = r] IN
        /\ Typed(u) /\ u.em[e] = r
        /\ \A f \in Emulators \ {e} : u.em[f] = s.em[f]
        /\ u.loaded = s.loaded /\ u.gen = s.gen /\ u.phase = s.phase
        /\ u.spaces = s.spaces /\ u.misuse = s.misuse
  BY DEF Typed

LEMMA UnloadRomOwner ==
  ASSUME NEW s, OwnerInv(s), NEW e \in Emulators
  PROVE /\ OwnerInv(UnloadRom(s, e))
        /\ ~UnloadRom(s, e).em[e].romLoaded
        /\ UnloadRom(s, e).em[e].handle = s.em[e].handle
        /\ UnloadRom(s, e).em[e].core = s.em[e].core
        /\ UnloadRom(s, e).loaded = s.loaded
  <1>1. CASE ~s.em[e].romLoaded
    BY <1>1 DEF UnloadRom
  <1>2. CASE s.em[e].romLoaded
    <2> DEFINE t == CallTo(s, "retro_unload_game", "ready")
               r == [s.em[e] EXCEPT !.romLoaded = FALSE, !.romPath = NoRom,
                                    !.space = NoData, !.map = 0]
               u == UnloadRom(s, e)
    <2>1. /\ Typed(t) /\ t.em = s.em /\ t.loaded = s.loaded /\ t.gen = s.gen
          /\ t.phase = "ready"
      BY CallEffect DEF OwnerInv, Calls, Allowed, Phases
    <2>11. s.phase = "game" /\ Lifecycle(t)
      BY <1>2, CallLifecycle DEF OwnerInv, OwnsCore, Calls, Allowed, Phases
    <2>9. s.em[e] \in EmulatorState
      BY DEF OwnerInv, Typed
    <2>10. 0 \in Gen
      BY CoreAssumption DEF Gen
    <2>2. r \in EmulatorState
      BY <2>9, <2>10 DEF EmulatorState
    <2>3. u = [t EXCEPT !.em[e] = r]
      BY <1>2, <2>1 DEF UnloadRom
    <2> HIDE DEF t, u
    <2>4. /\ Typed(u) /\ u.em[e] = r /\ u.loaded = s.loaded /\ u.gen = s.gen
          /\ u.phase = "ready" /\ u.misuse = t.misuse
          /\ \A f \in Emulators \ {e} : u.em[f] = s.em[f]
      BY <2>1, <2>2, <2>3, PutEmulator
    <2>5. /\ ~r.romLoaded /\ r.handle = s.em[e].handle
          /\ r.core = s.em[e].core
      BY <2>9 DEF EmulatorState
    <2> HIDE DEF r
    <2>6. OwnsCore(s, e) /\ \A f \in Emulators : OwnsCore(s, f)
      BY DEF OwnerInv
    <2>7. s.loaded = e /\ OwnsCore(u, e)
      BY <1>2, <2>4, <2>5, <2>6 DEF OwnsCore
    <2>8. ASSUME NEW f \in Emulators \ {e} PROVE OwnsCore(u, f)
      BY <2>4, <2>6, <2>7, <2>8 DEF OwnsCore
    <2> QED BY <2>11, <2>4, <2>5, <2>7, <2>8, CoreAssumption DEF OwnerInv, Lifecycle, u
  <1> QED BY <1>1, <1>2

\* The library is closed and nobody owns it.
LEMMA UnloadCoreOwner ==
  ASSUME NEW s, OwnerInv(s), NEW e \in Emulators
  PROVE /\ OwnerInv(UnloadCore(s, e))
        /\ UnloadCore(s, e).em[e].handle = 0
        /\ ~UnloadCore(s, e).em[e].romLoaded
  <1>1. CASE s.em[e].handle = 0
    BY <1>1 DEF UnloadCore, OwnerInv, OwnsCore
  <1>2. CASE s.em[e].handle # 0
    <2> DEFINE rom == UnloadRom(s, e)
               t == CallTo(rom, "retro_deinit", "mapped")
               c == CallTo(t, "dlclose", "closed")
               r == [s.em[e] EXCEPT !.handle = 0]
               u == UnloadCore(s, e)
    <2>1. /\ OwnerInv(rom) /\ ~rom.em[e].romLoaded /\ rom.loaded = s.loaded
          /\ rom.em[e].handle = s.em[e].handle
      BY UnloadRomOwner
    <2>2. rom.loaded = e /\ rom.phase = "ready"
      BY <1>2, <2>1 DEF OwnerInv, OwnsCore
    <2> HIDE DEF rom
    <2>3. /\ Typed(t) /\ t.em = rom.em /\ t.phase = "mapped" /\ t.gen = rom.gen
          /\ Lifecycle(t)
      BY <2>1, <2>2, CallEffect, CallLifecycle
         DEF OwnerInv, Calls, Allowed, Phases
    <2> HIDE DEF t
    <2>4. /\ Typed(c) /\ c.em = rom.em /\ c.phase = "closed" /\ c.gen = rom.gen
          /\ Lifecycle(c)
      BY <2>3, CallEffect, CallLifecycle DEF Calls, Allowed, Phases
    <2> HIDE DEF c
    <2>5. u = [c EXCEPT !.em[e].handle = 0, !.loaded = NoEmulator]
      BY <1>2 DEF UnloadCore, c, t, rom
    <2> HIDE DEF u
    <2>6. c.em[e] \in EmulatorState /\ 0 \in Gen
      BY <2>4, CoreAssumption DEF Typed, Gen
    <2>7. /\ u.em[e] = [c.em[e] EXCEPT !.handle = 0]
          /\ \A f \in Emulators \ {e} : u.em[f] = c.em[f]
          /\ u.loaded = NoEmulator /\ u.phase = "closed"
          /\ u.misuse = c.misuse /\ u.em \in [Emulators -> EmulatorState]
      BY <2>4, <2>5, <2>6 DEF Typed, EmulatorState
    <2>8. Typed(u)
      BY <2>4, <2>5, <2>7 DEF Typed
    <2>9. u.em[e].handle = 0 /\ ~u.em[e].romLoaded
      BY <2>1, <2>4, <2>6, <2>7 DEF EmulatorState
    <2>10. ASSUME NEW f \in Emulators PROVE OwnsCore(u, f)
      <3>1. f # e => rom.em[f].handle = 0 /\ ~rom.em[f].romLoaded
        BY <2>1, <2>2 DEF OwnerInv, OwnsCore
      <3> QED BY <3>1, <2>4, <2>7, <2>9, CoreAssumption DEF OwnsCore
    <2> QED BY <2>4, <2>7, <2>8, <2>9, <2>10 DEF OwnerInv, Lifecycle, u
  <1> QED BY <1>1, <1>2

-----------------------------------------------------------------------------
\* Two hosts that agree on everything ownership is about.
SameOwnership(u, s) ==
  /\ u.loaded = s.loaded /\ u.gen = s.gen /\ u.phase = s.phase
  /\ \A f \in Emulators :
       /\ u.em[f].handle = s.em[f].handle /\ u.em[f].core = s.em[f].core
       /\ u.em[f].romLoaded = s.em[f].romLoaded
       /\ u.em[f].romPath = s.em[f].romPath

LEMMA OwnershipTransfer ==
  ASSUME NEW s, OwnerInv(s), NEW u, Typed(u), Lifecycle(u), SameOwnership(u, s)
  PROVE OwnerInv(u)
  BY DEF OwnerInv, OwnsCore, SameOwnership

FrameCalls == {"retro_run", "retro_reset", "retro_serialize",
               "retro_unserialize", "retro_get_memory"}

LEMMA CallOwner ==
  ASSUME NEW s, OwnerInv(s), NEW fn \in FrameCalls
  PROVE /\ OwnerInv(Call(s, fn)) /\ SameOwnership(Call(s, fn), s)
        /\ Call(s, fn).em = s.em /\ Call(s, fn).spaces = s.spaces
  <1>1. fn \in Calls /\ s.phase \in Phases
    BY DEF FrameCalls, Calls, Allowed, OwnerInv, Typed
  <1>2. Lifecycle(Call(s, fn))
    BY <1>1, CallLifecycle DEF OwnerInv, FrameCalls
  <1>3. /\ Typed(Call(s, fn)) /\ Call(s, fn).em = s.em
        /\ Call(s, fn).spaces = s.spaces /\ SameOwnership(Call(s, fn), s)
    BY <1>1, CallEffect DEF OwnerInv, SameOwnership
  <1> QED BY <1>2, <1>3, OwnershipTransfer

LEMMA SpacesEffect ==
  ASSUME NEW s, Typed(s), NEW d \in Datas, NEW B \in SUBSET Block,
         NEW u, u = [s EXCEPT !.spaces[d] = B]
  PROVE /\ Typed(u) /\ SameOwnership(u, s) /\ u.misuse = s.misuse
        /\ u.em = s.em /\ u.spaces[d] = B
        /\ \A c \in Datas \ {d} : u.spaces[c] = s.spaces[c]
  BY DEF Typed, SameOwnership

LEMMA ReconfigureEffect ==
  ASSUME NEW s, Typed(s), NEW e \in Emulators,
         NEW u, u = ReconfigureAddressSpace(s, e)
  PROVE /\ Typed(u) /\ SameOwnership(u, s) /\ u.misuse = s.misuse
        /\ u.em = s.em
  <1> DEFINE d == s.em[e].space
             B == {[gen |-> s.em[e].map, view |-> "map"]}
  <1>1. s.em[e] \in EmulatorState
    BY DEF Typed
  <1>2. d \in Datas \cup {NoData} /\ B \in SUBSET Block
    BY <1>1 DEF EmulatorState, Block
  <1>3. CASE d # NoData /\ s.em[e].map # 0 /\ s.spaces[d] = {}
    <2>1. u = [s EXCEPT !.spaces[d] = B]
      BY <1>3 DEF ReconfigureAddressSpace
    <2>2. d \in Datas
      BY <1>2, <1>3
    <2> HIDE DEF d, B
    <2> QED BY <2>1, <2>2, <1>2, SpacesEffect
  <1>4. CASE ~(d # NoData /\ s.em[e].map # 0 /\ s.spaces[d] = {})
    BY <1>4 DEF ReconfigureAddressSpace, SameOwnership
  <1> QED BY <1>3, <1>4

LEMMA SetMapsEffect ==
  ASSUME NEW s, Typed(s), NEW e \in Emulators,
         NEW u, u = SetMemoryMaps(s, e)
  PROVE /\ Typed(u) /\ SameOwnership(u, s) /\ u.misuse = s.misuse
        /\ u.em[e] = [s.em[e] EXCEPT !.map = s.gen]
        /\ \A f \in Emulators \ {e} : u.em[f] = s.em[f]
  <1> DEFINE r == [s.em[e] EXCEPT !.map = s.gen]
             t == [s EXCEPT !.em[e].map = s.gen]
  <1>1. s.em[e] \in EmulatorState /\ s.gen \in Gen
    BY DEF Typed
  <1>2. /\ r \in EmulatorState /\ r.handle = s.em[e].handle
        /\ r.core = s.em[e].core /\ r.romLoaded = s.em[e].romLoaded
        /\ r.romPath = s.em[e].romPath
    BY <1>1 DEF EmulatorState
  <1>3. t = [s EXCEPT !.em[e] = r]
    BY DEF Typed
  <1> HIDE DEF r, t
  <1>4. /\ Typed(t) /\ t.misuse = s.misuse /\ t.em[e] = r
        /\ t.loaded = s.loaded /\ t.gen = s.gen /\ t.phase = s.phase
        /\ \A f \in Emulators \ {e} : t.em[f] = s.em[f]
    BY <1>2, <1>3, PutEmulator
  <1>6. SameOwnership(t, s)
    BY <1>2, <1>4 DEF SameOwnership
  <1>5. u = ReconfigureAddressSpace(t, e)
    BY DEF SetMemoryMaps, t
  <1> QED BY <1>4, <1>5, <1>6, ReconfigureEffect, SMTT(20) DEF SameOwnership, r

LEMMA SetMapsOwner ==
  ASSUME NEW s, OwnerInv(s), NEW e \in Emulators
  PROVE OwnerInv(SetMemoryMaps(s, e)) /\ SameOwnership(SetMemoryMaps(s, e), s)
  <1>1. LET u == SetMemoryMaps(s, e) IN
        Typed(u) /\ SameOwnership(u, s) /\ u.misuse = s.misuse
    BY SetMapsEffect DEF OwnerInv
  <1>2. Lifecycle(SetMemoryMaps(s, e))
    BY <1>1 DEF OwnerInv, Lifecycle
  <1> QED BY <1>1, <1>2, OwnershipTransfer

-----------------------------------------------------------------------------
LEMMA LoadCoreOwner ==
  ASSUME NEW s, OwnerInv(s), NEW e \in Emulators, NEW core \in Cores, NEW out,
         s.em[e].handle = 0, ~s.em[e].romLoaded
  PROVE LET u == LoadCore(s, e, core, out) IN
        /\ OwnerInv(u) /\ ~u.em[e].romLoaded
        /\ u.em[e].handle # 0 => u.em[e].core = core
  <1>1. CASE s.loaded # NoEmulator \/ out = "noLibrary" \/ s.gen = MaxOpens
    BY <1>1 DEF LoadCore
  <1>2. CASE ~(s.loaded # NoEmulator \/ out = "noLibrary" \/ s.gen = MaxOpens)
    <2> DEFINE r == [s.em[e] EXCEPT !.handle = s.gen + 1, !.core = core]
               t == [s EXCEPT !.gen = @ + 1, !.phase = "mapped", !.loaded = e,
                              !.em[e] = r]
               u == LoadCore(s, e, core, out)
    <2>1. s.em[e] \in EmulatorState /\ s.gen \in Gen /\ s.gen + 1 \in Gen
      BY <1>2, CoreAssumption DEF OwnerInv, Typed, Gen
    <2>2. /\ r \in EmulatorState /\ r.handle = s.gen + 1 /\ r.core = core
          /\ ~r.romLoaded
      BY <2>1 DEF EmulatorState
    <2> HIDE DEF r
    <2>3. /\ Typed(t) /\ t.em[e] = r /\ t.loaded = e /\ t.gen = s.gen + 1
          /\ t.phase = "mapped" /\ t.misuse = s.misuse
          /\ \A f \in Emulators \ {e} : t.em[f] = s.em[f]
      BY <2>1, <2>2 DEF OwnerInv, Typed, Phases
    <2>4. u = CallTo(t, "retro_init", "ready")
      BY <1>2 DEF LoadCore, r
    <2> HIDE DEF t, u
    <2>5. Lifecycle(t)
      BY <2>3 DEF OwnerInv, Lifecycle
    <2>6. /\ Typed(u) /\ u.em = t.em /\ u.loaded = e /\ u.gen = t.gen
          /\ u.phase = "ready" /\ Lifecycle(u)
      BY <2>3, <2>4, <2>5, CallEffect, CallLifecycle
         DEF Calls, Allowed, Phases
    <2>7. \A f \in Emulators \ {e} : s.em[f].handle = 0 /\ ~s.em[f].romLoaded
      BY <1>2, CoreAssumption DEF OwnerInv, OwnsCore
    <2>8. s.gen + 1 # 0
      BY <2>1, CoreAssumption DEF Gen
    <2>9. OwnsCore(u, e)
      BY <2>2, <2>3, <2>6, <2>8 DEF OwnsCore
    <2>10. ASSUME NEW f \in Emulators \ {e} PROVE OwnsCore(u, f)
      BY <2>3, <2>6, <2>7 DEF OwnsCore
    <2> QED BY <2>2, <2>3, <2>6, <2>9, <2>10, CoreAssumption DEF OwnerInv, u
  <1> QED BY <1>1, <1>2

LEMMA LoadGameOwner ==
  ASSUME NEW s, OwnerInv(s), NEW e \in Emulators, NEW rom \in Roms, NEW out,
         s.em[e].handle # 0, ~s.em[e].romLoaded, s.em[e].core = CoreOf[rom]
  PROVE OwnerInv(LoadGame(s, e, rom, out))
  <1> DEFINE u == LoadGame(s, e, rom, out)
             t == CallTo(s, "retro_load_game", "game")
             p == IF CoreOf[rom] \in MapsAtLoad THEN SetMemoryMaps(t, e) ELSE t
             r == [p.em[e] EXCEPT !.romLoaded = TRUE, !.romPath = rom]
  <1>1. s.loaded = e /\ s.phase = "ready"
    BY DEF OwnerInv, OwnsCore
  <1>2. CASE out = "noFile"
    BY <1>2 DEF LoadGame
  <1>3. CASE out # "noFile" /\ out # "loaded"
    <2>1. Call(s, "retro_load_game") = s
      BY <1>1 DEF Call, Allowed
    <2> QED BY <1>3, <2>1 DEF LoadGame
  <1>4. CASE out = "loaded"
    <2>1. /\ Typed(t) /\ t.em = s.em /\ t.loaded = s.loaded /\ t.gen = s.gen
          /\ t.phase = "game" /\ Lifecycle(t)
      BY <1>1, CallEffect, CallLifecycle DEF OwnerInv, Calls, Allowed, Phases
    <2> HIDE DEF t
    <2>2. /\ Typed(p) /\ SameOwnership(p, t) /\ p.misuse = t.misuse
      <3>1. CASE CoreOf[rom] \in MapsAtLoad
        BY <2>1, <3>1, SetMapsEffect, ZenonT(30)
      <3>2. CASE CoreOf[rom] \notin MapsAtLoad
        BY <2>1, <3>2 DEF SameOwnership
      <3> QED BY <3>1, <3>2
    <2> HIDE DEF p
    <2>3. p.em[e] \in EmulatorState /\ rom \in Roms \cup {NoRom}
      BY <2>2 DEF Typed
    <2>4. /\ r \in EmulatorState /\ r.romLoaded /\ r.romPath = rom
          /\ r.handle = p.em[e].handle /\ r.core = p.em[e].core
      BY <2>3 DEF EmulatorState
    <2>5. u = [p EXCEPT !.em[e] = r]
      BY <1>4 DEF LoadGame, p, t
    <2> HIDE DEF r, u
    <2>6. /\ Typed(u) /\ u.em[e] = r /\ u.loaded = p.loaded /\ u.gen = p.gen
          /\ u.phase = p.phase /\ u.misuse = p.misuse
          /\ \A f \in Emulators \ {e} : u.em[f] = p.em[f]
      BY <2>2, <2>4, <2>5, PutEmulator
    <2>7. /\ u.loaded = e /\ u.gen = s.gen /\ u.phase = "game"
          /\ r.handle = s.em[e].handle /\ r.core = CoreOf[rom]
          /\ r.core \in Cores /\ s.em[e].handle = s.gen
      BY <1>1, <2>1, <2>2, <2>4, <2>6 DEF SameOwnership, OwnerInv, OwnsCore
    <2>8. OwnsCore(u, e)
      BY <2>4, <2>6, <2>7 DEF OwnsCore
    <2>9. ASSUME NEW f \in Emulators \ {e} PROVE OwnsCore(u, f)
      BY <1>1, <2>1, <2>2, <2>6, <2>7 DEF OwnerInv, OwnsCore, SameOwnership
    <2>10. Lifecycle(u)
      BY <2>1, <2>2, <2>6 DEF Lifecycle
    <2> QED BY <2>6, <2>7, <2>8, <2>9, <2>10, CoreAssumption DEF OwnerInv, u
  <1> QED BY <1>2, <1>3, <1>4

LEMMA LoadRomOwner ==
  ASSUME NEW s, OwnerInv(s), NEW e \in Emulators, NEW rom \in Roms \cup {NoRom},
         NEW out
  PROVE OwnerInv(LoadRom(s, e, rom, out))
  <1> DEFINE core == CoreOf[rom]
             idle == UnloadRom(s, e)
             swapped == SwapCore(idle, e, core)
             open == IF swapped.em[e].handle = 0
                     THEN LoadCore(swapped, e, core, out) ELSE swapped
  <1>1. OwnerInv(idle) /\ ~idle.em[e].romLoaded
    BY UnloadRomOwner
  <1>2. LoadRom(s, e, rom, out) = IF core = NoCore THEN idle
                                  ELSE IF open.em[e].handle = 0 THEN open
                                  ELSE LoadGame(open, e, rom, out)
    BY DEF LoadRom
  <1> HIDE DEF idle
  <1>3. CASE core = NoCore
    BY <1>1, <1>2, <1>3
  <1>4. CASE core # NoCore
    <2>1. core \in Cores /\ rom \in Roms
      BY <1>4, CoreAssumption
    <2>2. /\ OwnerInv(swapped) /\ ~swapped.em[e].romLoaded
          /\ swapped.em[e].handle # 0 => swapped.em[e].core = core
      BY <1>1, UnloadCoreOwner DEF SwapCore
    <2> HIDE DEF swapped
    <2>3. /\ OwnerInv(open) /\ ~open.em[e].romLoaded
          /\ open.em[e].handle # 0 => open.em[e].core = core
      BY <2>1, <2>2, LoadCoreOwner
    <2> HIDE DEF open
    <2> QED BY <1>2, <1>4, <2>1, <2>3, LoadGameOwner
  <1> QED BY <1>3, <1>4

\* A picture is of the library that is open, or none.
LEMMA PictureTyped ==
  ASSUME NEW s, OwnerInv(s), NEW e, NEW data \in Pictures(s, e)
  PROVE data \in Gen
  BY CoreAssumption DEF Pictures, Gen, OwnerInv, Typed

LEMMA RunOwner ==
  ASSUME NEW s, OwnerInv(s), NEW e \in Emulators, NEW data \in Gen
  PROVE OwnerInv(Run(s, e, data))
  <1> DEFINE t == Call(s, "retro_run")
             c == s.phase = "game" /\ s.em[e].core \in MapsAtRun /\ s.em[e].map = 0
             p == IF c THEN SetMemoryMaps(t, e) ELSE t
             img == IF data # 0 THEN data ELSE p.em[e].img
             r == [p.em[e] EXCEPT !.img = img]
             u == Run(s, e, data)
  <1>1. OwnerInv(t)
    BY CallOwner DEF FrameCalls
  <1> HIDE DEF t, c
  <1>2. OwnerInv(p)
    BY <1>1, SetMapsOwner
  <1>3. u = [p EXCEPT !.em[e].img = img]
    BY DEF Run, VideoRefresh, p, c, t
  <1> HIDE DEF p
  <1>4. p.em[e] \in EmulatorState /\ img \in Gen
    BY <1>2 DEF OwnerInv, Typed, EmulatorState
  <1> HIDE DEF img
  <1>5. /\ r \in EmulatorState /\ r.handle = p.em[e].handle
        /\ r.core = p.em[e].core /\ r.romLoaded = p.em[e].romLoaded
        /\ r.romPath = p.em[e].romPath
    BY <1>4 DEF EmulatorState
  <1>6. u = [p EXCEPT !.em[e] = r]
    BY <1>2, <1>3 DEF OwnerInv, Typed
  <1> HIDE DEF r, u
  <1>7. /\ Typed(u) /\ u.misuse = p.misuse /\ u.em[e] = r
        /\ u.loaded = p.loaded /\ u.gen = p.gen /\ u.phase = p.phase
        /\ \A f \in Emulators \ {e} : u.em[f] = p.em[f]
    BY <1>2, <1>5, <1>6, PutEmulator DEF OwnerInv
  <1>8. SameOwnership(u, p) /\ Lifecycle(u)
    BY <1>2, <1>5, <1>7 DEF SameOwnership, OwnerInv, Lifecycle
  <1> QED BY <1>2, <1>7, <1>8, OwnershipTransfer DEF u

\* The library is dropped under the game and opened again; whatever the second
\* loadRom answers, the ownership is sound.
LEMMA ReloadOwner ==
  ASSUME NEW s, OwnerInv(s), NEW e \in Emulators, s.loaded = e, NEW out
  PROVE OwnerInv(Reload(s, e, out))
  <1> DEFINE c == CallTo(s, "dlclose", "closed")
             r == [s.em[e] EXCEPT !.handle = 0, !.romLoaded = FALSE]
             shut == [c EXCEPT !.em[e] = [@ EXCEPT !.handle = 0, !.romLoaded = FALSE],
                               !.loaded = NoEmulator]
             again == LoadRom(shut, e, s.em[e].romPath, out)
             d == again.em[e].space
             B == {[gen |-> again.gen, view |-> "ram"]}
  <1>1. s.phase \in {"ready", "game"} /\ s.em[e] \in EmulatorState
    BY DEF OwnerInv, OwnsCore, Typed
  <1>2. /\ Typed(c) /\ c.em = s.em /\ c.phase = "closed" /\ c.gen = s.gen
        /\ Lifecycle(c)
    BY <1>1, CallEffect, CallLifecycle DEF OwnerInv, Calls, Allowed, Phases
  <1> HIDE DEF c
  <1>3. 0 \in Gen
    BY CoreAssumption DEF Gen
  <1>4. r \in EmulatorState /\ r.handle = 0 /\ ~r.romLoaded
    BY <1>1, <1>3 DEF EmulatorState
  <1>5. /\ Typed(shut) /\ shut.em[e] = r /\ shut.loaded = NoEmulator
        /\ shut.phase = "closed" /\ shut.misuse = c.misuse
        /\ \A f \in Emulators \ {e} : shut.em[f] = s.em[f]
    BY <1>2, <1>4 DEF Typed
  <1> HIDE DEF shut, r
  <1>6. ASSUME NEW f \in Emulators PROVE OwnsCore(shut, f)
    BY <1>4, <1>5, CoreAssumption DEF OwnerInv, OwnsCore
  <1>7. OwnerInv(shut) /\ s.em[e].romPath \in Roms \cup {NoRom}
    BY <1>1, <1>2, <1>5, <1>6 DEF OwnerInv, Lifecycle, EmulatorState
  <1>8. OwnerInv(again)
    BY <1>7, LoadRomOwner
  <1>9. CASE d = NoData
    BY <1>8, <1>9 DEF Reload, AttachRam, shut, c
  <1>10. CASE d # NoData
    <2> DEFINE g == Call(again, "retro_get_memory")
               u == [g EXCEPT !.spaces[d] = B]
    <2>1. Reload(s, e, out) = u
      BY <1>10 DEF Reload, AttachRam, shut, c
    <2> HIDE DEF again
    <2>2. OwnerInv(g)
      BY <1>8, CallOwner DEF FrameCalls
    <2>3. again.em[e] \in EmulatorState /\ again.gen \in Gen
      BY <1>8 DEF OwnerInv, Typed
    <2>4. d \in Datas /\ B \in SUBSET Block
      BY <1>10, <2>3 DEF EmulatorState, Block
    <2> HIDE DEF d, B, g
    <2>5. Typed(u) /\ SameOwnership(u, g) /\ u.misuse = g.misuse
      BY <2>2, <2>4, SpacesEffect DEF OwnerInv
    <2> HIDE DEF u
    <2>6. Lifecycle(u)
      BY <2>2, <2>5 DEF OwnerInv, Lifecycle
    <2> QED BY <2>1, <2>2, <2>5, <2>6, OwnershipTransfer
  <1> QED BY <1>9, <1>10

-----------------------------------------------------------------------------
\* Writing one emulator's fields that ownership is not about.
LEMMA PutOwner ==
  ASSUME NEW s, OwnerInv(s), NEW e \in Emulators, NEW r \in EmulatorState,
         r.handle = s.em[e].handle, r.core = s.em[e].core,
         r.romLoaded = s.em[e].romLoaded, r.romPath = s.em[e].romPath,
         NEW u, u = [s EXCEPT !.em[e] = r]
  PROVE OwnerInv(u) /\ SameOwnership(u, s)
  <1>1. /\ Typed(u) /\ u.em[e] = r /\ u.misuse = s.misuse
        /\ u.loaded = s.loaded /\ u.gen = s.gen /\ u.phase = s.phase
        /\ \A f \in Emulators \ {e} : u.em[f] = s.em[f]
    BY PutEmulator DEF OwnerInv
  <1>2. SameOwnership(u, s) /\ Lifecycle(u)
    BY <1>1 DEF SameOwnership, OwnerInv, Lifecycle
  <1> QED BY <1>1, <1>2, OwnershipTransfer

LEMMA MaskOwner ==
  ASSUME NEW s, OwnerInv(s), NEW e \in Emulators, NEW K \in SUBSET Keys,
         NEW u, u = [s EXCEPT !.em[e].mask = K]
  PROVE OwnerInv(u) /\ SameOwnership(u, s)
  <1> DEFINE r == [s.em[e] EXCEPT !.mask = K]
  <1>1. s.em[e] \in EmulatorState
    BY DEF OwnerInv, Typed
  <1>2. /\ r \in EmulatorState /\ r.handle = s.em[e].handle
        /\ r.core = s.em[e].core /\ r.romLoaded = s.em[e].romLoaded
        /\ r.romPath = s.em[e].romPath
    BY <1>1 DEF EmulatorState
  <1>3. u = [s EXCEPT !.em[e] = r]
    BY DEF OwnerInv, Typed
  <1> HIDE DEF r
  <1> QED BY <1>2, <1>3, PutOwner

LEMMA ResetOwner ==
  ASSUME NEW s, OwnerInv(s), NEW e \in Emulators, s.loaded = e, NEW out
  PROVE OwnerInv(Reset(s, e, out))
  <1> DEFINE clear == [s EXCEPT !.em[e].mask = {}]
             t == IF s.em[e].core = Stella THEN Reload(clear, e, out) ELSE clear
             p == IF t.phase = "game" /\ t.em[e].core \in MapsAtRun
                  THEN SetMemoryMaps(t, e) ELSE t
  <1>1. OwnerInv(clear) /\ clear.loaded = e
    <2>1. {} \in SUBSET Keys
      OBVIOUS
    <2>2. OwnerInv(clear) /\ SameOwnership(clear, s)
      BY <2>1, MaskOwner
    <2> QED BY <2>2 DEF SameOwnership
  <1>2. Reset(s, e, out) = Call(p, "retro_reset")
    BY DEF Reset, MapAtReset
  <1> HIDE DEF clear
  <1>3. OwnerInv(t)
    BY <1>1, ReloadOwner
  <1> HIDE DEF t
  <1>4. OwnerInv(p)
    BY <1>3, SetMapsOwner
  <1> HIDE DEF p
  <1> QED BY <1>2, <1>4, CallOwner DEF FrameCalls

LEMMA UnserializeOwner ==
  ASSUME NEW s, OwnerInv(s), NEW e \in Emulators, s.loaded = e, NEW out
  PROVE OwnerInv(Unserialize(s, e, out))
  <1> DEFINE t == IF s.em[e].core = Stella THEN Reset(s, e, out) ELSE s
  <1>1. OwnerInv(t)
    BY ResetOwner
  <1>2. Unserialize(s, e, out) = Call(t, "retro_unserialize")
    BY DEF Unserialize
  <1> HIDE DEF t
  <1> QED BY <1>1, <1>2, CallOwner DEF FrameCalls

LEMMA ConfigureDataOwner ==
  ASSUME NEW s, OwnerInv(s), NEW e \in Emulators, NEW d \in Datas
  PROVE OwnerInv(ConfigureData(s, e, d))
  <1> DEFINE r == [s.em[e] EXCEPT !.space = d]
             a == [s EXCEPT !.em[e] = r]
             b == [a EXCEPT !.spaces[d] = {}]
             t == ReconfigureAddressSpace(b, e)
             B == {[gen |-> s.gen, view |-> "ram"]}
             u == ConfigureData(s, e, d)
  <1>1. s.em[e] \in EmulatorState /\ s.gen \in Gen
    BY DEF OwnerInv, Typed
  <1>2. /\ r \in EmulatorState /\ r.handle = s.em[e].handle
        /\ r.core = s.em[e].core /\ r.romLoaded = s.em[e].romLoaded
        /\ r.romPath = s.em[e].romPath
    BY <1>1 DEF EmulatorState
  <1>3. b = [s EXCEPT !.em[e].space = d, !.spaces[d] = {}]
    BY DEF OwnerInv, Typed
  <1>4. u = IF t.spaces[d] = {} /\ s.phase = "game"
            THEN [t EXCEPT !.spaces[d] = B] ELSE t
    BY <1>3 DEF ConfigureData
  <1>5. B \in SUBSET Block /\ {} \in SUBSET Block
    BY <1>1 DEF Block
  <1> HIDE DEF r, u, B
  <1>6. OwnerInv(a)
    BY <1>2, PutOwner
  <1> HIDE DEF a
  <1>7. Typed(b) /\ SameOwnership(b, a) /\ b.misuse = a.misuse
    BY <1>5, <1>6, SpacesEffect DEF OwnerInv
  <1>8. OwnerInv(b)
    BY <1>6, <1>7, OwnershipTransfer DEF OwnerInv, Lifecycle
  <1> HIDE DEF b
  <1>9. Typed(t) /\ SameOwnership(t, b) /\ t.misuse = b.misuse
    BY <1>8, ReconfigureEffect DEF OwnerInv
  <1>10. OwnerInv(t)
    BY <1>8, <1>9, OwnershipTransfer DEF OwnerInv, Lifecycle
  <1> HIDE DEF t
  <1>11. CASE u = t
    BY <1>10, <1>11 DEF u
  <1>12. CASE u = [t EXCEPT !.spaces[d] = B]
    <2>1. Typed(u) /\ SameOwnership(u, t) /\ u.misuse = t.misuse
      BY <1>5, <1>10, <1>12, SpacesEffect DEF OwnerInv
    <2> QED BY <1>10, <2>1, OwnershipTransfer DEF OwnerInv, Lifecycle, u
  <1> QED BY <1>4, <1>11, <1>12

LEMMA DestroyOwner ==
  ASSUME NEW s, OwnerInv(s), NEW e \in Emulators
  PROVE OwnerInv(Destroy(s, e))
  <1> DEFINE t == UnloadCore(UnloadRom(s, e), e)
             r == FreshEmulator
             u == Destroy(s, e)
  <1>1. OwnerInv(t) /\ t.em[e].handle = 0 /\ ~t.em[e].romLoaded
    BY UnloadRomOwner, UnloadCoreOwner
  <1>2. r \in EmulatorState /\ r.handle = 0 /\ ~r.romLoaded
    BY CoreAssumption DEF FreshEmulator, EmulatorState, Gen
  <1>3. u = [t EXCEPT !.em[e] = r]
    BY DEF Destroy
  <1> HIDE DEF t, r, u
  <1>4. /\ Typed(u) /\ u.em[e] = r /\ u.misuse = t.misuse
        /\ u.loaded = t.loaded /\ u.gen = t.gen /\ u.phase = t.phase
        /\ \A f \in Emulators \ {e} : u.em[f] = t.em[f]
    BY <1>1, <1>2, <1>3, PutEmulator DEF OwnerInv
  <1>5. t.loaded # e
    BY <1>1 DEF OwnerInv, OwnsCore
  <1>6. \A f \in Emulators : OwnsCore(u, f)
    BY <1>1, <1>2, <1>4, <1>5 DEF OwnerInv, OwnsCore
  <1> QED BY <1>1, <1>4, <1>6 DEF OwnerInv, Lifecycle, u

-----------------------------------------------------------------------------
IInv == OwnerInv(host)

LEMMA InitOwner == Init => OwnerInv(host)
  <1> SUFFICES ASSUME Init PROVE OwnerInv(host)
    OBVIOUS
  <1>1. FreshEmulator \in EmulatorState /\ 0 \in Gen
    BY CoreAssumption DEF FreshEmulator, EmulatorState, Gen
  <1>2. Typed(host)
    BY <1>1 DEF Init, Typed, Phases
  <1>3. \A e \in Emulators : OwnsCore(host, e)
    BY CoreAssumption DEF Init, OwnsCore, FreshEmulator
  <1>4. Lifecycle(host) /\ host.phase = "closed"
    BY DEF Init, Lifecycle
  <1> QED BY <1>2, <1>3, <1>4 DEF OwnerInv

\* Every member function, called as its assertions ask, keeps the ownership.
LEMMA NextOwner == OwnerInv(host) /\ [Next]_host => OwnerInv(host')
  <1> SUFFICES ASSUME OwnerInv(host), [Next]_host PROVE OwnerInv(host')
    OBVIOUS
  <1>1. CASE UNCHANGED host
    BY <1>1
  <1>2. ASSUME NEW e \in Emulators, DoLoadRom(e) PROVE OwnerInv(host')
    BY <1>2, LoadRomOwner DEF DoLoadRom
  <1>3. ASSUME NEW e \in Emulators, DoUnloadRom(e) PROVE OwnerInv(host')
    BY <1>3, UnloadRomOwner DEF DoUnloadRom
  <1>4. ASSUME NEW e \in Emulators, DoUnloadCore(e) PROVE OwnerInv(host')
    BY <1>4, UnloadCoreOwner DEF DoUnloadCore
  <1>5. ASSUME NEW e \in Emulators, DoDestroy(e) PROVE OwnerInv(host')
    BY <1>5, DestroyOwner DEF DoDestroy
  <1>6. ASSUME NEW e \in Emulators, DoSetKey(e) PROVE OwnerInv(host')
    <2>1. PICK k \in Keys, active \in BOOLEAN :
            host' = [host EXCEPT !.em[e].mask =
                       IF active THEN @ \cup {k} ELSE @ \ {k}]
      BY <1>6 DEF DoSetKey
    <2> DEFINE K == IF active THEN host.em[e].mask \cup {k}
                    ELSE host.em[e].mask \ {k}
    <2>2. K \in SUBSET Keys
      BY DEF OwnerInv, Typed, EmulatorState
    <2>3. host' = [host EXCEPT !.em[e].mask = K]
      BY <2>1 DEF OwnerInv, Typed, EmulatorState
    <2> HIDE DEF K
    <2> QED BY <2>2, <2>3, MaskOwner
  <1>7. ASSUME NEW e \in Emulators, DoRun(e) PROVE OwnerInv(host')
    BY <1>7, RunOwner, PictureTyped DEF DoRun
  <1>8. ASSUME NEW e \in Emulators, DoReset(e) PROVE OwnerInv(host')
    BY <1>8, ResetOwner DEF DoReset
  <1>9. ASSUME NEW e \in Emulators, DoUnserialize(e) PROVE OwnerInv(host')
    BY <1>9, UnserializeOwner DEF DoUnserialize
  <1>10. ASSUME NEW e \in Emulators, DoSerialize(e) PROVE OwnerInv(host')
    BY <1>10, CallOwner DEF DoSerialize, Serialize, FrameCalls
  <1>11. ASSUME NEW e \in Emulators, DoConfigureData(e) PROVE OwnerInv(host')
    BY <1>11, ConfigureDataOwner DEF DoConfigureData
  <1> QED BY <1>1, <1>2, <1>3, <1>4, <1>5, <1>6, <1>7, <1>8, <1>9, <1>10,
             <1>11 DEF Next

LEMMA OwnerInvariant == Spec => []IInv
  <1>1. Init => IInv
    BY InitOwner DEF IInv
  <1>2. IInv /\ [Next]_host => IInv'
    BY NextOwner DEF IInv
  <1> QED BY <1>1, <1>2, PTL DEF Spec

\* The members of every Emulator and of the static state keep their types.
THEOREM TypeCorrect == Spec => []TypeOK
  <1>1. IInv => TypeOK
    BY DEF IInv, OwnerInv, TypeOK
  <1> QED BY <1>1, OwnerInvariant, PTL

\* However many Emulator objects a process makes, s_loadedEmulator names the
\* only one with a library open, and the phase of that library is the one the
\* object believes in.
THEOREM OneOwner == Spec => []SingleOwner
  <1>1. IInv => SingleOwner
    BY DEF IInv, OwnerInv, SingleOwner
  <1> QED BY <1>1, OwnerInvariant, PTL

\* No caller can bring the lifecycle calls of a core out of their order, but
\* for the dlclose of reset().
THEOREM LegalLifecycle == Spec => []LifecycleLegal
  <1>1. IInv => LifecycleLegal
    BY DEF IInv, OwnerInv, LifecycleLegal
  <1> QED BY <1>1, OwnerInvariant, PTL
-----------------------------------------------------------------------------
(***************************************************************************)
(* Part 2.  What the member functions of Emulator do beyond ownership:     *)
(* which of their calls are no misuse, and what becomes of memory maps and *)
(* of the address spaces of GameData.  One lemma per function says what it *)
(* leaves of the fields part 1 is not about; the invariant that no block   *)
(* outlives its library follows from them.                                 *)
(***************************************************************************)
\* Functions called on e leave the other emulators alone.
OthersSame(u, s, e) == \A f \in Emulators \ {e} : u.em[f] = s.em[f]

\* A call made in its phase is no misuse.
LEMMA LegalCall ==
  ASSUME NEW s, Typed(s), NEW fn \in Calls, NEW p \in Phases,
         s.phase \in Allowed[fn]
  PROVE Call(s, fn) = s /\ CallTo(s, fn, p) = [s EXCEPT !.phase = p]
  BY DEF Call, CallTo

\* What a call adds to the record of misuse.
Misused(s, fn) == IF s.phase \in Allowed[fn] THEN {} ELSE {<<fn, s.phase>>}

LEMMA CallMisuse ==
  ASSUME NEW s, Typed(s), NEW fn \in Calls
  PROVE Call(s, fn).misuse = s.misuse \cup Misused(s, fn)
  BY DEF Call, Typed, Misused

\* The blocks a host hands out now.
MapBlock(s) == {[gen |-> s.gen, view |-> "map"]}
RamBlock(s) == {[gen |-> s.gen, view |-> "ram"]}

\* The blocks of the memory map e has been given.
KeptMap(s, e) == {[gen |-> s.em[e].map, view |-> "map"]}

\* What unloading leaves of the attached space and of the memory map.
SpaceLeft(s, e) == IF s.em[e].romLoaded THEN NoData ELSE s.em[e].space
MapLeft(s, e) == IF s.em[e].romLoaded THEN 0 ELSE s.em[e].map

LEMMA UnloadRomEffect ==
  ASSUME NEW s, OwnerInv(s), NEW e \in Emulators, NEW u, u = UnloadRom(s, e)
  PROVE /\ u.misuse = s.misuse /\ u.spaces = s.spaces /\ OthersSame(u, s, e)
        /\ u.em[e].space = SpaceLeft(s, e) /\ u.em[e].map = MapLeft(s, e)
  <1>1. s.em[e] \in EmulatorState
    BY DEF OwnerInv, Typed
  <1>2. CASE ~s.em[e].romLoaded
    BY <1>2 DEF UnloadRom, OthersSame, SpaceLeft, MapLeft
  <1>3. CASE s.em[e].romLoaded
    <2> DEFINE r == [s.em[e] EXCEPT !.romLoaded = FALSE, !.romPath = NoRom,
                                    !.space = NoData, !.map = 0]
    <2>1. s.phase = "game"
      BY <1>3 DEF OwnerInv, OwnsCore
    <2>2. CallTo(s, "retro_unload_game", "ready") = [s EXCEPT !.phase = "ready"]
      BY <2>1, LegalCall DEF OwnerInv, Calls, Allowed, Phases
    <2>3. u = [s EXCEPT !.phase = "ready", !.em[e] = r]
      BY <1>3, <2>2 DEF UnloadRom, OwnerInv, Typed
    <2>4. r.space = NoData /\ r.map = 0
      BY <1>1 DEF EmulatorState
    <2> HIDE DEF r
    <2> QED BY <1>3, <2>3, <2>4
            DEF OwnerInv, Typed, OthersSame, SpaceLeft, MapLeft
  <1> QED BY <1>2, <1>3

LEMMA UnloadCoreEffect ==
  ASSUME NEW s, OwnerInv(s), NEW e \in Emulators, NEW u, u = UnloadCore(s, e)
  PROVE /\ u.misuse = s.misuse /\ u.spaces = s.spaces /\ OthersSame(u, s, e)
        /\ u.em[e].space = SpaceLeft(s, e) /\ u.em[e].map = MapLeft(s, e)
  <1>1. CASE s.em[e].handle = 0
    BY <1>1 DEF UnloadCore, OwnerInv, OwnsCore, OthersSame, SpaceLeft, MapLeft
  <1>2. CASE s.em[e].handle # 0
    <2> DEFINE rom == UnloadRom(s, e)
               t == CallTo(rom, "retro_deinit", "mapped")
               c == CallTo(t, "dlclose", "closed")
    <2>1. /\ OwnerInv(rom) /\ ~rom.em[e].romLoaded
          /\ rom.em[e].handle # 0
      BY <1>2, UnloadRomOwner
    <2>2. /\ rom.misuse = s.misuse /\ rom.spaces = s.spaces
          /\ OthersSame(rom, s, e) /\ rom.em[e].space = SpaceLeft(s, e)
          /\ rom.em[e].map = MapLeft(s, e)
      BY UnloadRomEffect
    <2> HIDE DEF rom
    <2>3. rom.phase = "ready" /\ Typed(rom)
      BY <2>1 DEF OwnerInv, OwnsCore
    <2>4. t = [rom EXCEPT !.phase = "mapped"]
      BY <2>3, LegalCall DEF Calls, Allowed, Phases
    <2>5. Typed(t) /\ t.phase = "mapped"
      BY <2>3, <2>4 DEF Typed, Phases
    <2>6. c = [t EXCEPT !.phase = "closed"]
      BY <2>5, LegalCall DEF Calls, Allowed, Phases
    <2>7. u = [c EXCEPT !.em[e].handle = 0, !.loaded = NoEmulator]
      BY <1>2 DEF UnloadCore, c, t, rom
    <2>8. rom.em[e] \in EmulatorState
      BY <2>3 DEF Typed
    <2>9. /\ u.misuse = rom.misuse /\ u.spaces = rom.spaces
          /\ u.em[e] = [rom.em[e] EXCEPT !.handle = 0]
          /\ OthersSame(u, rom, e)
      BY <2>3, <2>4, <2>6, <2>7 DEF Typed, OthersSame
    <2> QED BY <2>2, <2>8, <2>9 DEF OthersSame, EmulatorState
  <1> QED BY <1>1, <1>2

LEMMA LoadCoreEffect ==
  ASSUME NEW s, OwnerInv(s), NEW e \in Emulators, NEW core \in Cores, NEW out,
         NEW u, u = LoadCore(s, e, core, out)
  PROVE /\ u.misuse = s.misuse /\ u.spaces = s.spaces /\ OthersSame(u, s, e)
        /\ u.em[e].space = s.em[e].space /\ u.em[e].map = s.em[e].map
  <1>1. CASE s.loaded # NoEmulator \/ out = "noLibrary" \/ s.gen = MaxOpens
    BY <1>1 DEF LoadCore, OthersSame
  <1>2. CASE ~(s.loaded # NoEmulator \/ out = "noLibrary" \/ s.gen = MaxOpens)
    <2> DEFINE r == [s.em[e] EXCEPT !.handle = s.gen + 1, !.core = core]
               t == [s EXCEPT !.gen = @ + 1, !.phase = "mapped", !.loaded = e,
                              !.em[e] = r]
    <2>1. s.em[e] \in EmulatorState /\ s.gen \in Gen /\ s.gen + 1 \in Gen
      BY <1>2, CoreAssumption DEF OwnerInv, Typed, Gen
    <2>2. /\ r \in EmulatorState /\ r.space = s.em[e].space
          /\ r.map = s.em[e].map
      BY <2>1 DEF EmulatorState
    <2> HIDE DEF r
    <2>3. /\ Typed(t) /\ t.em[e] = r /\ t.misuse = s.misuse
          /\ t.spaces = s.spaces /\ OthersSame(t, s, e) /\ t.phase = "mapped"
      BY <2>1, <2>2 DEF OwnerInv, Typed, Phases, OthersSame
    <2>4. u = CallTo(t, "retro_init", "ready")
      BY <1>2 DEF LoadCore, r
    <2> HIDE DEF t
    <2>5. u = [t EXCEPT !.phase = "ready"]
      BY <2>3, <2>4, LegalCall DEF Calls, Allowed, Phases
    <2>6. /\ u.misuse = t.misuse /\ u.spaces = t.spaces /\ u.em = t.em
      BY <2>3, <2>5 DEF Typed
    <2> QED BY <2>2, <2>3, <2>6 DEF OthersSame
  <1> QED BY <1>1, <1>2

\* Only the space that is attached can get blocks, and only when it has none.
LEMMA ReconfigureSpaces ==
  ASSUME NEW s, Typed(s), NEW e \in Emulators,
         NEW u, u = ReconfigureAddressSpace(s, e), NEW c \in Datas
  PROVE u.spaces[c] =
          IF c = s.em[e].space /\ s.em[e].map # 0 /\ s.spaces[c] = {}
          THEN KeptMap(s, e) ELSE s.spaces[c]
  <1>1. s.em[e] \in EmulatorState
    BY DEF Typed
  <1> DEFINE d == s.em[e].space
             B == KeptMap(s, e)
  <1>2. d \in Datas \cup {NoData}
    BY <1>1 DEF EmulatorState
  <1>3. CASE d # NoData /\ s.em[e].map # 0 /\ s.spaces[d] = {}
    <2>1. u = [s EXCEPT !.spaces[d] = B]
      BY <1>3 DEF ReconfigureAddressSpace, KeptMap
    <2> HIDE DEF B
    <2>2. u.spaces = [s.spaces EXCEPT ![d] = B]
      BY <2>1 DEF Typed
    <2> QED BY <1>3, <2>2 DEF Typed, B
  <1>4. CASE ~(d # NoData /\ s.em[e].map # 0 /\ s.spaces[d] = {})
    BY <1>4, CoreAssumption DEF ReconfigureAddressSpace
  <1> QED BY <1>3, <1>4

LEMMA SetMapsSpaces ==
  ASSUME NEW s, Typed(s), NEW e \in Emulators,
         NEW u, u = SetMemoryMaps(s, e), NEW c \in Datas
  PROVE u.spaces[c] =
          IF c = s.em[e].space /\ s.gen # 0 /\ s.spaces[c] = {}
          THEN MapBlock(s) ELSE s.spaces[c]
  <1> DEFINE r == [s.em[e] EXCEPT !.map = s.gen]
             t == [s EXCEPT !.em[e].map = s.gen]
  <1>1. s.em[e] \in EmulatorState /\ s.gen \in Gen
    BY DEF Typed
  <1>2. r \in EmulatorState /\ r.space = s.em[e].space /\ r.map = s.gen
    BY <1>1 DEF EmulatorState
  <1>3. t = [s EXCEPT !.em[e] = r]
    BY DEF Typed
  <1> HIDE DEF r, t
  <1>4. Typed(t) /\ t.em[e] = r /\ t.spaces = s.spaces
    BY <1>2, <1>3, PutEmulator
  <1>5. u = ReconfigureAddressSpace(t, e)
    BY DEF SetMemoryMaps, t
  <1> HIDE DEF r, t
  <1>6. u.spaces[c] =
          IF c = t.em[e].space /\ t.em[e].map # 0 /\ t.spaces[c] = {}
          THEN KeptMap(t, e) ELSE t.spaces[c]
    BY <1>4, <1>5, ReconfigureSpaces
  <1> QED BY <1>2, <1>4, <1>6 DEF MapBlock, KeptMap

LEMMA LoadGameEffect ==
  ASSUME NEW s, OwnerInv(s), NEW e \in Emulators, NEW rom \in Roms, NEW out,
         s.em[e].handle # 0, ~s.em[e].romLoaded, s.em[e].core = CoreOf[rom],
         NEW u, u = LoadGame(s, e, rom, out)
  PROVE /\ u.misuse = s.misuse /\ OthersSame(u, s, e) /\ u.gen = s.gen
        /\ u.em[e].core = s.em[e].core
        /\ u.em[e].space = s.em[e].space
        /\ u.em[e].map = IF u.em[e].romLoaded /\ CoreOf[rom] \in MapsAtLoad
                         THEN s.gen ELSE s.em[e].map
        /\ CoreOf[rom] \notin MapsAtLoad \/ s.em[e].space = NoData =>
             u.spaces = s.spaces
  <1> DEFINE t == CallTo(s, "retro_load_game", "game")
             p == IF CoreOf[rom] \in MapsAtLoad THEN SetMemoryMaps(t, e) ELSE t
             r == [p.em[e] EXCEPT !.romLoaded = TRUE, !.romPath = rom]
  <1>1. s.phase = "ready" /\ Typed(s)
    BY DEF OwnerInv, OwnsCore
  <1>2. CASE out # "loaded"
    <2>1. Call(s, "retro_load_game") = s
      BY <1>1, LegalCall DEF Calls, Allowed, Phases
    <2>2. u = s
      BY <1>2, <2>1 DEF LoadGame
    <2> QED BY <2>2 DEF OthersSame
  <1>3. CASE out = "loaded"
    <2>1. t = [s EXCEPT !.phase = "game"]
      BY <1>1, LegalCall DEF Calls, Allowed, Phases
    <2>2. /\ Typed(t) /\ t.em = s.em /\ t.gen = s.gen /\ t.misuse = s.misuse
          /\ t.spaces = s.spaces
      BY <1>1, <2>1 DEF Typed, Phases
    <2> HIDE DEF t
    <2>3. s.em[e] \in EmulatorState /\ s.gen \in Gen
      BY <1>1 DEF Typed
    <2>4. /\ Typed(p) /\ p.misuse = s.misuse /\ p.gen = s.gen
          /\ OthersSame(p, s, e) /\ p.em[e].space = s.em[e].space
          /\ p.em[e].core = s.em[e].core
          /\ p.em[e].map = IF CoreOf[rom] \in MapsAtLoad THEN s.gen
                           ELSE s.em[e].map
      <3>1. CASE CoreOf[rom] \in MapsAtLoad
        <4>1. p = SetMemoryMaps(t, e)
          BY <3>1
        <4> HIDE DEF p
        <4>2. /\ Typed(p) /\ SameOwnership(p, t) /\ p.misuse = t.misuse
              /\ p.em[e] = [t.em[e] EXCEPT !.map = t.gen]
              /\ \A f \in Emulators \ {e} : p.em[f] = t.em[f]
          BY <2>2, <4>1, SetMapsEffect
        <4> QED BY <2>2, <2>3, <3>1, <4>2
                DEF SameOwnership, OthersSame, EmulatorState
      <3>2. CASE CoreOf[rom] \notin MapsAtLoad
        BY <2>2, <3>2 DEF OthersSame
      <3> QED BY <3>1, <3>2
    <2>5. CoreOf[rom] \notin MapsAtLoad \/ s.em[e].space = NoData =>
            p.spaces = s.spaces
      <3>1. CASE CoreOf[rom] \in MapsAtLoad /\ s.em[e].space = NoData
        <4>1. p = SetMemoryMaps(t, e)
          BY <3>1
        <4>2. ASSUME NEW c \in Datas PROVE p.spaces[c] = t.spaces[c]
          <5> HIDE DEF p
          <5>1. c # t.em[e].space
            BY <2>2, <3>1, CoreAssumption
          <5> QED BY <2>2, <4>1, <5>1, SetMapsSpaces
        <4>3. DOMAIN p.spaces = Datas /\ DOMAIN t.spaces = Datas
              /\ p.spaces = [c \in Datas |-> p.spaces[c]]
              /\ t.spaces = [c \in Datas |-> t.spaces[c]]
          BY <2>2, <2>4 DEF Typed
        <4> QED BY <2>2, <4>2, <4>3
      <3>2. CASE CoreOf[rom] \notin MapsAtLoad
        BY <2>2, <3>2
      <3> QED BY <3>1, <3>2
    <2>6. u = [p EXCEPT !.em[e] = r]
      BY <1>3 DEF LoadGame, p, t
    <2> HIDE DEF p
    <2>7. p.em[e] \in EmulatorState
      BY <2>4 DEF Typed
    <2>8. /\ r \in EmulatorState /\ r.romLoaded /\ r.space = p.em[e].space
          /\ r.map = p.em[e].map /\ r.core = p.em[e].core
      BY <2>7 DEF EmulatorState
    <2> HIDE DEF r
    <2>9. /\ u.em[e] = r /\ OthersSame(u, p, e) /\ u.misuse = p.misuse
          /\ u.spaces = p.spaces /\ u.gen = p.gen
      BY <2>4, <2>6, <2>8, PutEmulator DEF OthersSame
    <2> QED BY <2>4, <2>5, <2>8, <2>9 DEF OthersSame
  <1> QED BY <1>2, <1>3

\* loadRom makes no call that is a misuse, and the blocks of an address space
\* stay as they are unless the core maps its memory while it loads.
LEMMA LoadRomEffect ==
  ASSUME NEW s, OwnerInv(s), NEW e \in Emulators,
         NEW rom \in Roms \cup {NoRom}, NEW out,
         NEW u, u = LoadRom(s, e, rom, out)
  PROVE /\ u.misuse = s.misuse /\ OthersSame(u, s, e)
        /\ u.em[e].romLoaded => u.em[e].core = CoreOf[rom]
        /\ u.em[e].space = SpaceLeft(s, e)
        /\ u.em[e].map = IF u.em[e].romLoaded /\ CoreOf[rom] \in MapsAtLoad
                         THEN u.gen ELSE MapLeft(s, e)
        /\ CoreOf[rom] \notin MapsAtLoad \/ SpaceLeft(s, e) = NoData =>
             u.spaces = s.spaces
  <1> DEFINE core == CoreOf[rom]
             idle == UnloadRom(s, e)
             swapped == SwapCore(idle, e, core)
             open == IF swapped.em[e].handle = 0
                     THEN LoadCore(swapped, e, core, out) ELSE swapped
             Same(x) == /\ x.misuse = s.misuse /\ x.spaces = s.spaces
                        /\ OthersSame(x, s, e)
                        /\ x.em[e].space = SpaceLeft(s, e)
                        /\ x.em[e].map = MapLeft(s, e)
  <1>1. OwnerInv(idle) /\ ~idle.em[e].romLoaded /\ Same(idle)
    BY UnloadRomOwner, UnloadRomEffect
  <1>2. u = IF core = NoCore THEN idle
            ELSE IF open.em[e].handle = 0 THEN open
            ELSE LoadGame(open, e, rom, out)
    BY DEF LoadRom
  <1> HIDE DEF idle
  <1>3. CASE core = NoCore
    BY <1>1, <1>2, <1>3
  <1>4. CASE core # NoCore
    <2>1. core \in Cores /\ rom \in Roms
      BY <1>4, CoreAssumption
    <2>2. SpaceLeft(idle, e) = SpaceLeft(s, e) /\ MapLeft(idle, e) = MapLeft(s, e)
      BY <1>1 DEF SpaceLeft, MapLeft
    <2>3. /\ OwnerInv(swapped) /\ ~swapped.em[e].romLoaded /\ Same(swapped)
          /\ swapped.em[e].handle # 0 => swapped.em[e].core = core
      BY <1>1, <2>2, UnloadCoreOwner, UnloadCoreEffect DEF SwapCore, OthersSame
    <2> HIDE DEF swapped
    <2>4. /\ OwnerInv(open) /\ ~open.em[e].romLoaded /\ Same(open)
          /\ open.em[e].handle # 0 => open.em[e].core = core
      BY <2>1, <2>3, LoadCoreOwner, LoadCoreEffect DEF OthersSame
    <2> HIDE DEF open
    <2>5. CASE open.em[e].handle = 0
      BY <1>2, <1>4, <2>4, <2>5
    <2>6. CASE open.em[e].handle # 0
      <3>1. u = LoadGame(open, e, rom, out)
        BY <1>2, <1>4, <2>6
      <3> QED BY <2>1, <2>4, <2>6, <3>1, LoadGameEffect DEF OthersSame
    <2> QED BY <2>5, <2>6
  <1> QED BY <1>3, <1>4

\* The core publishes its memory map inside this retro_run.
MapsInRun(s, e) ==
  s.phase = "game" /\ s.em[e].core \in MapsAtRun /\ s.em[e].map = 0

LEMMA RunEffect ==
  ASSUME NEW s, OwnerInv(s), NEW e \in Emulators, NEW data \in Gen,
         NEW u, u = Run(s, e, data)
  PROVE /\ u.misuse = s.misuse \cup Misused(s, "retro_run")
        /\ OthersSame(u, s, e) /\ SameOwnership(u, s)
        /\ u.em[e].space = s.em[e].space
        /\ u.em[e].img = IF data # 0 THEN data ELSE s.em[e].img
        /\ MapsInRun(s, e) => u.em[e].map = s.gen
        /\ ~MapsInRun(s, e) => u.em[e].map = s.em[e].map
        /\ \A c \in Datas :
             /\ u.spaces[c] = s.spaces[c] \/
                  /\ MapsInRun(s, e) /\ c = s.em[e].space /\ s.spaces[c] = {}
                  /\ u.spaces[c] = MapBlock(s)
             /\ MapsInRun(s, e) /\ c = s.em[e].space /\ s.gen # 0
                  /\ s.spaces[c] = {} => u.spaces[c] = MapBlock(s)
  <1> DEFINE t == Call(s, "retro_run")
             maps == /\ s.phase = "game" /\ s.em[e].core \in MapsAtRun
                     /\ s.em[e].map = 0
             p == IF maps THEN SetMemoryMaps(t, e) ELSE t
             img == IF data # 0 THEN data ELSE p.em[e].img
             r == [p.em[e] EXCEPT !.img = img]
  <1>1. /\ OwnerInv(t) /\ SameOwnership(t, s) /\ t.em = s.em
        /\ t.spaces = s.spaces
    BY CallOwner DEF FrameCalls
  <1>2. t.misuse = s.misuse \cup Misused(s, "retro_run")
    BY CallMisuse DEF OwnerInv, Calls, Allowed
  <1>3. u = [p EXCEPT !.em[e].img = img]
    BY DEF Run, VideoRefresh
  <1>4. Typed(t) /\ t.gen = s.gen /\ s.gen \in Gen /\ s.em[e] \in EmulatorState
    BY <1>1 DEF OwnerInv, SameOwnership, Typed
  <1> HIDE DEF t, maps
  <1>5. /\ Typed(p) /\ p.misuse = t.misuse /\ SameOwnership(p, s)
        /\ OthersSame(p, s, e) /\ p.em[e].space = s.em[e].space
        /\ p.em[e].img = s.em[e].img
        /\ p.em[e].map = IF maps THEN s.gen ELSE s.em[e].map
        /\ \A c \in Datas :
             p.spaces[c] = IF maps /\ c = s.em[e].space /\ s.gen # 0
                              /\ s.spaces[c] = {}
                           THEN MapBlock(s)
                           ELSE s.spaces[c]
    <2>1. CASE maps
      <3>1. p = SetMemoryMaps(t, e)
        BY <2>1
      <3> HIDE DEF p
      <3>2. /\ Typed(p) /\ SameOwnership(p, t) /\ p.misuse = t.misuse
            /\ p.em[e] = [t.em[e] EXCEPT !.map = t.gen]
            /\ OthersSame(p, t, e)
        BY <1>4, <3>1, SetMapsEffect DEF OthersSame
      <3>3. ASSUME NEW c \in Datas
            PROVE p.spaces[c] = IF c = t.em[e].space /\ t.gen # 0
                                   /\ t.spaces[c] = {}
                                THEN MapBlock(t)
                                ELSE t.spaces[c]
        BY <1>4, <3>1, SetMapsSpaces
      <3>4. SameOwnership(p, s)
        BY <1>1, <3>2 DEF SameOwnership
      <3>5. /\ p.em[e].space = s.em[e].space /\ p.em[e].map = s.gen
            /\ p.em[e].img = s.em[e].img
        BY <1>1, <1>4, <3>2 DEF EmulatorState
      <3>6. MapBlock(t) = MapBlock(s)
        BY <1>4 DEF MapBlock
      <3>7. OthersSame(p, s, e)
        BY <1>1, <3>2 DEF OthersSame
      <3> QED BY <1>1, <1>4, <2>1, <3>2, <3>3, <3>4, <3>5, <3>6, <3>7
    <2>2. CASE ~maps
      BY <1>1, <1>4, <2>2 DEF OthersSame
    <2> QED BY <2>1, <2>2
  <1> HIDE DEF p
  <1>6. p.em[e] \in EmulatorState /\ img \in Gen
        /\ img = IF data # 0 THEN data ELSE s.em[e].img
    BY <1>5 DEF Typed, EmulatorState
  <1> HIDE DEF img
  <1>7. /\ r \in EmulatorState /\ r.img = img /\ r.space = p.em[e].space
        /\ r.map = p.em[e].map /\ r.handle = p.em[e].handle
        /\ r.core = p.em[e].core /\ r.romLoaded = p.em[e].romLoaded
        /\ r.romPath = p.em[e].romPath
    BY <1>4, <1>6 DEF EmulatorState
  <1>8. u = [p EXCEPT !.em[e] = r]
    BY <1>3, <1>5 DEF Typed
  <1> HIDE DEF r
  <1>9. /\ u.em[e] = r /\ OthersSame(u, p, e) /\ u.misuse = p.misuse
        /\ u.spaces = p.spaces /\ u.loaded = p.loaded /\ u.gen = p.gen
        /\ u.phase = p.phase
    BY <1>5, <1>7, <1>8, PutEmulator DEF OthersSame
  <1>10. SameOwnership(u, s)
    BY <1>5, <1>7, <1>9 DEF SameOwnership, OthersSame
  <1>11. OthersSame(u, s, e)
    BY <1>5, <1>9 DEF OthersSame
  <1>12. maps = MapsInRun(s, e)
    BY DEF maps, MapsInRun
  <1>13. ASSUME NEW c \in Datas
         PROVE /\ u.spaces[c] = s.spaces[c] \/
                    /\ maps /\ c = s.em[e].space /\ s.spaces[c] = {}
                    /\ u.spaces[c] = MapBlock(s)
               /\ maps /\ c = s.em[e].space /\ s.gen # 0
                    /\ s.spaces[c] = {} => u.spaces[c] = MapBlock(s)
    BY <1>5, <1>9
  <1>14. u.em[e].map = IF maps THEN s.gen ELSE s.em[e].map
    BY <1>5, <1>7, <1>9
  <1> QED BY <1>2, <1>5, <1>6, <1>7, <1>9, <1>10, <1>11, <1>12, <1>13, <1>14

LEMMA AttachRamEffect ==
  ASSUME NEW s, OwnerInv(s), NEW e \in Emulators, NEW u, u = AttachRam(s, e)
  PROVE /\ OwnerInv(u) /\ SameOwnership(u, s) /\ u.em = s.em
        /\ s.em[e].space = NoData => u = s
        /\ s.em[e].space # NoData =>
             /\ u.misuse = s.misuse \cup Misused(s, "retro_get_memory")
             /\ u.spaces[s.em[e].space] = RamBlock(s)
             /\ \A c \in Datas \ {s.em[e].space} : u.spaces[c] = s.spaces[c]
  <1> DEFINE d == s.em[e].space
             B == RamBlock(s)
             g == Call(s, "retro_get_memory")
  <1>1. s.em[e] \in EmulatorState /\ s.gen \in Gen
    BY DEF OwnerInv, Typed
  <1>2. d \in Datas \cup {NoData} /\ B \in SUBSET Block
    BY <1>1 DEF EmulatorState, Block, RamBlock
  <1>3. CASE d = NoData
    BY <1>3 DEF AttachRam, SameOwnership
  <1>4. CASE d # NoData
    <2>1. u = [g EXCEPT !.spaces[d] = B]
      BY <1>4 DEF AttachRam, RamBlock
    <2>2. /\ OwnerInv(g) /\ SameOwnership(g, s) /\ g.em = s.em
          /\ g.spaces = s.spaces
      BY CallOwner DEF FrameCalls
    <2>3. g.misuse = s.misuse \cup Misused(s, "retro_get_memory")
      BY CallMisuse DEF OwnerInv, Calls, Allowed
    <2>4. d \in Datas /\ Typed(g)
      BY <1>2, <1>4, <2>2 DEF OwnerInv
    <2> HIDE DEF B, g
    <2>5. /\ Typed(u) /\ SameOwnership(u, g) /\ u.misuse = g.misuse
          /\ u.em = g.em /\ u.spaces[d] = B
          /\ \A c \in Datas \ {d} : u.spaces[c] = g.spaces[c]
      BY <1>2, <2>1, <2>4 DEF Typed, SameOwnership
    <2>6. Lifecycle(u)
      BY <2>2, <2>5 DEF OwnerInv, Lifecycle
    <2>7. OwnerInv(u) /\ SameOwnership(u, s)
      BY <2>2, <2>5, <2>6, OwnershipTransfer DEF SameOwnership
    <2> QED BY <1>4, <2>2, <2>3, <2>5, <2>7 DEF B
  <1> QED BY <1>3, <1>4

\* The phase is the one of the emulator that is loaded.
LEMMA GamePhase ==
  ASSUME NEW s, OwnerInv(s), NEW e \in Emulators
  PROVE /\ s.em[e].romLoaded => s.phase = "game" /\ s.loaded = e
        /\ s.phase = "game" /\ s.loaded = e => s.em[e].romLoaded
        /\ s.phase = "game" => s.loaded \in Emulators
  BY DEF OwnerInv, OwnsCore, Typed

\* The reload of Stella: its one misuse is the dlclose, unless there is no game
\* afterwards to take the RAM of.
LEMMA ReloadEffect ==
  ASSUME NEW s, OwnerInv(s), NEW e \in Emulators, s.loaded = e, NEW out,
         s.em[e].core = Stella,
         s.em[e].romLoaded \/ s.em[e].space = NoData,
         NEW u, u = Reload(s, e, out)
  PROVE /\ s.phase \in {"ready", "game"} /\ OthersSame(u, s, e)
        /\ s.em[e].romLoaded /\ u.em[e].romLoaded => u.em[e].core = Stella
        /\ u.phase = "game" => u.em[e].romLoaded
        /\ u.em[e].space = s.em[e].space
        /\ u.em[e].map = IF u.em[e].romLoaded /\ u.em[e].core \in MapsAtLoad
                         THEN u.gen ELSE s.em[e].map
        /\ s.em[e].space = NoData =>
             /\ u.misuse = s.misuse \cup Misused(s, "dlclose")
             /\ u.spaces = s.spaces
        /\ s.em[e].space # NoData =>
             /\ u.misuse = s.misuse \cup Misused(s, "dlclose")
                             \cup Misused(u, "retro_get_memory")
             /\ u.spaces[s.em[e].space] = RamBlock(u)
             /\ \A d \in Datas \ {s.em[e].space} : u.spaces[d] = s.spaces[d]
  <1> DEFINE c == CallTo(s, "dlclose", "closed")
             rom == s.em[e].romPath
             r == [s.em[e] EXCEPT !.handle = 0, !.romLoaded = FALSE]
             shut == [c EXCEPT !.em[e] = [@ EXCEPT !.handle = 0, !.romLoaded = FALSE],
                               !.loaded = NoEmulator]
             again == LoadRom(shut, e, rom, out)
  <1>1. s.phase \in {"ready", "game"} /\ s.em[e] \in EmulatorState
    BY DEF OwnerInv, OwnsCore, Typed
  <1>2. /\ Typed(c) /\ c.em = s.em /\ c.phase = "closed" /\ c.gen = s.gen
        /\ Lifecycle(c) /\ c.spaces = s.spaces
    BY <1>1, CallEffect, CallLifecycle DEF OwnerInv, Calls, Allowed, Phases
  <1>3. c.misuse = s.misuse \cup Misused(s, "dlclose")
    <2>1. c.misuse = Call(s, "dlclose").misuse
      BY CallEffect DEF CallTo, OwnerInv, Typed, Calls, Allowed, Phases
    <2> QED BY <2>1, CallMisuse DEF OwnerInv, Calls, Allowed
  <1> HIDE DEF c
  <1>4. 0 \in Gen
    BY CoreAssumption DEF Gen
  <1>5. r \in EmulatorState /\ r.handle = 0 /\ ~r.romLoaded
        /\ r.space = s.em[e].space /\ r.map = s.em[e].map
    BY <1>1, <1>4 DEF EmulatorState
  <1>6. /\ Typed(shut) /\ shut.em[e] = r /\ shut.loaded = NoEmulator
        /\ shut.phase = "closed" /\ shut.misuse = c.misuse
        /\ shut.spaces = c.spaces
        /\ \A f \in Emulators \ {e} : shut.em[f] = s.em[f]
    BY <1>2, <1>5 DEF Typed
  <1>7. u = AttachRam(LoadRom(shut, e, rom, out), e)
    BY DEF Reload, c
  <1> HIDE DEF shut, r
  <1>8. ASSUME NEW f \in Emulators PROVE OwnsCore(shut, f)
    BY <1>5, <1>6, CoreAssumption DEF OwnerInv, OwnsCore
  <1>9. OwnerInv(shut) /\ rom \in Roms \cup {NoRom}
    BY <1>1, <1>2, <1>6, <1>8 DEF OwnerInv, Lifecycle, EmulatorState
  <1>10. SpaceLeft(shut, e) = s.em[e].space /\ MapLeft(shut, e) = s.em[e].map
    BY <1>5, <1>6 DEF SpaceLeft, MapLeft
  <1>11. s.em[e].romLoaded => CoreOf[rom] = Stella
    BY DEF OwnerInv, OwnsCore
  <1> HIDE DEF rom
  <1>12. /\ OwnerInv(again) /\ again.misuse = shut.misuse
         /\ OthersSame(again, shut, e) /\ again.em[e].space = s.em[e].space
         /\ again.em[e].romLoaded => again.em[e].core = CoreOf[rom]
         /\ again.em[e].map = IF again.em[e].romLoaded /\ CoreOf[rom] \in MapsAtLoad
                              THEN again.gen ELSE s.em[e].map
         /\ again.spaces = shut.spaces
    <2>1. CoreOf[rom] \notin MapsAtLoad \/ s.em[e].space = NoData
      BY <1>11, CoreAssumption
    <2> QED BY <1>9, <1>10, <2>1, LoadRomOwner, LoadRomEffect
  <1>13. u = AttachRam(again, e)
    BY <1>7
  <1> HIDE DEF again
  <1>14. /\ SameOwnership(u, again) /\ u.em = again.em
         /\ s.em[e].space = NoData => u = again
         /\ s.em[e].space # NoData =>
              /\ u.misuse = again.misuse \cup Misused(again, "retro_get_memory")
              /\ u.spaces[s.em[e].space] = RamBlock(again)
              /\ \A d \in Datas \ {s.em[e].space} : u.spaces[d] = again.spaces[d]
    BY <1>12, <1>13, AttachRamEffect
  <1>15. again.phase = "game" => again.em[e].romLoaded
    <2> SUFFICES ASSUME again.phase = "game", ~again.em[e].romLoaded PROVE FALSE
      OBVIOUS
    <2>1. PICK f \in Emulators : again.loaded = f
      BY <1>12, GamePhase
    <2>2. again.em[f].romLoaded
      BY <2>1, <1>12, GamePhase
    <2>3. f # e /\ s.em[f].romLoaded
      BY <2>2, <1>6, <1>12 DEF OthersSame
    <2> QED BY <2>3, GamePhase
  <1>16. /\ u.phase = again.phase /\ u.gen = again.gen
         /\ Misused(again, "retro_get_memory") = Misused(u, "retro_get_memory")
         /\ RamBlock(again) = RamBlock(u)
    BY <1>14 DEF SameOwnership, Misused, RamBlock
  <1>17. OthersSame(u, s, e)
    BY <1>6, <1>12, <1>14 DEF OthersSame
  <1>18. s.em[e].romLoaded /\ u.em[e].romLoaded => u.em[e].core = Stella
    BY <1>11, <1>12, <1>14
  <1>19. u.em[e].map = IF u.em[e].romLoaded /\ u.em[e].core \in MapsAtLoad
                       THEN u.gen ELSE s.em[e].map
    BY <1>12, <1>14, <1>16
  <1> QED BY <1>1, <1>2, <1>3, <1>6, <1>12, <1>14, <1>15, <1>16, <1>17, <1>18,
             <1>19
-----------------------------------------------------------------------------
\* The memory map and the address space of an emulator belong to the library
\* it has open.  Only a reload of Stella that fails leaves a space attached to
\* an emulator without a ROM, and then it has just ended the process.
Bound(s, e) ==
  /\ s.em[e].map \in {0, s.em[e].handle}
  /\ s.em[e].core = Stella => s.em[e].map = 0
  /\ ~s.em[e].romLoaded => s.em[e].map = 0
  /\ ~s.em[e].romLoaded /\ ~Crashed(s) => s.em[e].space = NoData
  /\ Attached(s, e)

\* Nobody runs or saves a library that is closed.
Quiet(s) ==
  \A m \in s.misuse :
    m[2] = "closed" => m[1] \notin {"retro_run", "retro_serialize"}

HostInv(s) == OwnerInv(s) /\ Quiet(s) /\ \A e \in Emulators : Bound(s, e)

\* What happened to the process stays happened.
LEMMA CrashedStays ==
  ASSUME NEW s, NEW u, s.misuse \subseteq u.misuse, Crashed(s)
  PROVE Crashed(u)
  BY DEF Crashed

\* A call other than a frame or a snapshot of a closed library is quiet.
LEMMA CallQuiet ==
  ASSUME NEW s, Typed(s), Quiet(s), NEW fn \in Calls,
         s.phase # "closed" \/ fn \notin {"retro_run", "retro_serialize"},
         NEW u, u.misuse = s.misuse \cup Misused(s, fn)
  PROVE Quiet(u)
  BY DEF Quiet, Misused

\* An emulator nobody touches keeps what it is bound to.
LEMMA BoundStays ==
  ASSUME NEW s, NEW u, NEW f \in Emulators, Bound(s, f), u.em[f] = s.em[f],
         s.misuse \subseteq u.misuse,
         ~s.em[f].romLoaded \/ u.spaces = s.spaces
  PROVE Bound(u, f)
  BY CrashedStays DEF Bound, Attached

\* Only one emulator has a ROM loaded.
LEMMA OthersIdle ==
  ASSUME NEW s, OwnerInv(s), NEW e \in Emulators, s.loaded = e,
         NEW f \in Emulators \ {e}
  PROVE ~s.em[f].romLoaded
  BY DEF OwnerInv, OwnsCore

\* A ROM is loaded in the library that is open.
LEMMA LoadedGen ==
  ASSUME NEW s, OwnerInv(s), NEW e \in Emulators, s.em[e].romLoaded
  PROVE s.em[e].handle = s.gen /\ s.loaded = e /\ s.phase = "game"
  BY DEF OwnerInv, OwnsCore

LEMMA CallHost ==
  ASSUME NEW s, HostInv(s), NEW fn \in FrameCalls,
         s.phase # "closed" \/ fn \notin {"retro_run", "retro_serialize"}
  PROVE HostInv(Call(s, fn))
  <1> DEFINE u == Call(s, fn)
  <1>1. /\ OwnerInv(s) /\ OwnerInv(u) /\ u.em = s.em /\ u.spaces = s.spaces
    BY CallOwner DEF HostInv
  <1>2. fn \in Calls /\ Typed(s)
    BY <1>1 DEF FrameCalls, Calls, Allowed, OwnerInv
  <1>3. u.misuse = s.misuse \cup Misused(s, fn)
    BY <1>2, CallMisuse
  <1> HIDE DEF u
  <1>4. Quiet(u)
    BY <1>2, <1>3, CallQuiet DEF HostInv
  <1>5. \A f \in Emulators : Bound(u, f)
    BY <1>1, <1>3, BoundStays DEF HostInv
  <1> QED BY <1>1, <1>4, <1>5 DEF HostInv, u

LEMMA UnloadRomHost ==
  ASSUME NEW s, HostInv(s), ~Crashed(s), NEW e \in Emulators,
         NEW u, u = UnloadRom(s, e)
  PROVE HostInv(u) /\ ~Crashed(u) /\ u.em[e].space = NoData /\ u.em[e].map = 0
  <1>1. /\ OwnerInv(u) /\ ~u.em[e].romLoaded
        /\ u.misuse = s.misuse /\ u.spaces = s.spaces /\ OthersSame(u, s, e)
        /\ u.em[e].space = SpaceLeft(s, e) /\ u.em[e].map = MapLeft(s, e)
    BY UnloadRomOwner, UnloadRomEffect DEF HostInv
  <1>2. u.em[e].space = NoData /\ u.em[e].map = 0
    BY <1>1 DEF HostInv, Bound, SpaceLeft, MapLeft
  <1>3. Bound(u, e)
    BY <1>1, <1>2 DEF Bound, Attached
  <1>4. \A f \in Emulators \ {e} : Bound(u, f)
    BY <1>1, BoundStays DEF HostInv, OthersSame
  <1>5. Quiet(u) /\ ~Crashed(u)
    BY <1>1 DEF HostInv, Quiet, Crashed
  <1> QED BY <1>1, <1>2, <1>3, <1>4, <1>5 DEF HostInv

LEMMA UnloadCoreHost ==
  ASSUME NEW s, HostInv(s), ~Crashed(s), NEW e \in Emulators,
         NEW u, u = UnloadCore(s, e)
  PROVE HostInv(u) /\ ~Crashed(u) /\ u.em[e].space = NoData /\ u.em[e].map = 0
  <1>1. /\ OwnerInv(u) /\ ~u.em[e].romLoaded
        /\ u.misuse = s.misuse /\ u.spaces = s.spaces /\ OthersSame(u, s, e)
        /\ u.em[e].space = SpaceLeft(s, e) /\ u.em[e].map = MapLeft(s, e)
    BY UnloadCoreOwner, UnloadCoreEffect DEF HostInv
  <1>2. u.em[e].space = NoData /\ u.em[e].map = 0
    BY <1>1 DEF HostInv, Bound, SpaceLeft, MapLeft
  <1>3. Bound(u, e)
    BY <1>1, <1>2 DEF Bound, Attached
  <1>4. \A f \in Emulators \ {e} : Bound(u, f)
    BY <1>1, BoundStays DEF HostInv, OthersSame
  <1>5. Quiet(u) /\ ~Crashed(u)
    BY <1>1 DEF HostInv, Quiet, Crashed
  <1> QED BY <1>1, <1>2, <1>3, <1>4, <1>5 DEF HostInv

LEMMA LoadRomHost ==
  ASSUME NEW s, HostInv(s), ~Crashed(s), NEW e \in Emulators,
         NEW rom \in Roms, NEW out, NEW u, u = LoadRom(s, e, rom, out)
  PROVE HostInv(u)
  <1>1. rom \in Roms \cup {NoRom} /\ OwnerInv(s)
    BY DEF HostInv
  <1>2. SpaceLeft(s, e) = NoData /\ MapLeft(s, e) = 0
    BY DEF HostInv, Bound, SpaceLeft, MapLeft
  <1>3. /\ OwnerInv(u) /\ u.misuse = s.misuse /\ OthersSame(u, s, e)
        /\ u.em[e].romLoaded => u.em[e].core = CoreOf[rom]
        /\ u.em[e].space = NoData /\ u.spaces = s.spaces
        /\ u.em[e].map = IF u.em[e].romLoaded /\ CoreOf[rom] \in MapsAtLoad
                         THEN u.gen ELSE 0
    BY <1>1, <1>2, LoadRomOwner, LoadRomEffect
  <1>4. Bound(u, e)
    BY <1>3, LoadedGen, CoreAssumption DEF Bound, Attached
  <1>5. \A f \in Emulators \ {e} : Bound(u, f)
    BY <1>3, BoundStays DEF HostInv, OthersSame
  <1>6. Quiet(u)
    BY <1>3 DEF HostInv, Quiet
  <1> QED BY <1>3, <1>4, <1>5, <1>6 DEF HostInv

LEMMA RunHost ==
  ASSUME NEW s, HostInv(s), NEW e \in Emulators, s.loaded = e,
         NEW data \in Gen, NEW u, u = Run(s, e, data)
  PROVE HostInv(u)
  <1>1. /\ OwnerInv(s) /\ OwnerInv(u) /\ Typed(s) /\ SameOwnership(u, s)
        /\ u.misuse = s.misuse \cup Misused(s, "retro_run")
        /\ OthersSame(u, s, e) /\ u.em[e].space = s.em[e].space
        /\ MapsInRun(s, e) => u.em[e].map = s.gen
        /\ ~MapsInRun(s, e) => u.em[e].map = s.em[e].map
    BY RunOwner, RunEffect DEF HostInv, OwnerInv
  <1>2. ASSUME NEW c \in Datas
        PROVE u.spaces[c] = s.spaces[c] \/ u.spaces[c] = MapBlock(s)
    BY <1>1, RunEffect
  <1>3. /\ s.phase # "closed" /\ s.em[e].handle = s.gen
        /\ MapsInRun(s, e) => s.em[e].romLoaded /\ s.em[e].core # Stella
    BY <1>1, GamePhase, CoreAssumption DEF OwnerInv, OwnsCore, MapsInRun
  <1>4. u.em[e] \in EmulatorState
    BY <1>1 DEF OwnerInv, Typed
  <1>5. Attached(u, e)
    <2> SUFFICES ASSUME u.em[e].romLoaded, u.em[e].space # NoData,
                        NEW b \in u.spaces[u.em[e].space]
                 PROVE b.gen = u.em[e].handle
      BY DEF Attached
    <2>1. u.em[e].space \in Datas
      BY <1>4 DEF EmulatorState
    <2>2. s.em[e].romLoaded /\ u.em[e].handle = s.em[e].handle
      BY <1>1 DEF SameOwnership
    <2> QED BY <1>1, <1>2, <1>3, <2>1, <2>2 DEF HostInv, Bound, Attached, MapBlock
  <1>6. Bound(u, e)
    BY <1>1, <1>3, <1>5, CrashedStays DEF HostInv, Bound, SameOwnership
  <1>7. \A f \in Emulators \ {e} : Bound(u, f)
    BY <1>1, BoundStays, OthersIdle DEF HostInv, OthersSame
  <1>8. "retro_run" \in Calls
    BY DEF Calls, Allowed
  <1>9. Quiet(u)
    BY <1>1, <1>3, <1>8, CallQuiet DEF HostInv
  <1> QED BY <1>1, <1>6, <1>7, <1>9 DEF HostInv

\* The keys are of no concern to anything else.
LEMMA MaskEffect ==
  ASSUME NEW s, OwnerInv(s), NEW e \in Emulators, NEW K \in SUBSET Keys,
         NEW u, u = [s EXCEPT !.em[e].mask = K]
  PROVE /\ OwnerInv(u) /\ SameOwnership(u, s) /\ OthersSame(u, s, e)
        /\ u.misuse = s.misuse /\ u.spaces = s.spaces
        /\ u.em[e].space = s.em[e].space /\ u.em[e].map = s.em[e].map
        /\ u.em[e].img = s.em[e].img
  <1>1. OwnerInv(u) /\ SameOwnership(u, s)
    BY MaskOwner
  <1>2. s.em[e] \in EmulatorState
    BY DEF OwnerInv, Typed
  <1>3. /\ u.misuse = s.misuse /\ u.spaces = s.spaces
        /\ u.em[e] = [s.em[e] EXCEPT !.mask = K] /\ OthersSame(u, s, e)
    BY DEF OwnerInv, Typed, OthersSame
  <1> QED BY <1>1, <1>2, <1>3 DEF EmulatorState

LEMMA MaskHost ==
  ASSUME NEW s, HostInv(s), NEW e \in Emulators, NEW K \in SUBSET Keys,
         NEW u, u = [s EXCEPT !.em[e].mask = K]
  PROVE HostInv(u) /\ SameOwnership(u, s) /\ u.misuse = s.misuse
  <1>1. OwnerInv(s)
    BY DEF HostInv
  <1>2. /\ OwnerInv(u) /\ SameOwnership(u, s) /\ OthersSame(u, s, e)
        /\ u.misuse = s.misuse /\ u.spaces = s.spaces
        /\ u.em[e].space = s.em[e].space /\ u.em[e].map = s.em[e].map
    BY <1>1, MaskEffect
  <1>3. Bound(u, e)
    BY <1>2 DEF HostInv, Bound, SameOwnership, Attached, Crashed
  <1>4. \A f \in Emulators \ {e} : Bound(u, f)
    BY <1>2, BoundStays DEF HostInv, OthersSame
  <1> QED BY <1>2, <1>3, <1>4 DEF HostInv, Quiet

\* Memory is asked of a library that has no game only after a reload failed,
\* which ends the process.
LEMMA MemoryCrash ==
  ASSUME NEW s, NEW u, Misused(s, "retro_get_memory") \subseteq u.misuse,
         s.phase # "game"
  PROVE Crashed(u)
  <1>1. s.phase \notin Allowed["retro_get_memory"]
    BY DEF Allowed
  <1>2. <<"retro_get_memory", s.phase>> \in u.misuse
    BY <1>1 DEF Misused
  <1> QED BY <1>2 DEF Crashed

LEMMA ReloadHost ==
  ASSUME NEW s, HostInv(s), ~Crashed(s), NEW e \in Emulators, s.loaded = e,
         s.em[e].core = Stella, NEW out, NEW u, u = Reload(s, e, out)
  PROVE HostInv(u) /\ (u.phase = "game" => u.em[e].romLoaded)
  <1> DEFINE d == s.em[e].space
  <1>1. OwnerInv(s) /\ (s.em[e].romLoaded \/ d = NoData) /\ s.em[e].map = 0
    BY DEF HostInv, Bound
  <1>2. /\ OwnerInv(u) /\ s.phase \in {"ready", "game"} /\ OthersSame(u, s, e)
        /\ u.phase = "game" => u.em[e].romLoaded
        /\ u.em[e].space = d
        /\ u.em[e].map = IF u.em[e].romLoaded /\ u.em[e].core \in MapsAtLoad
                         THEN u.gen ELSE 0
    BY <1>1, ReloadOwner, ReloadEffect
  <1>3. /\ d = NoData =>
             /\ u.misuse = s.misuse \cup Misused(s, "dlclose")
             /\ u.spaces = s.spaces
        /\ d # NoData =>
             /\ u.misuse = s.misuse \cup Misused(s, "dlclose")
                             \cup Misused(u, "retro_get_memory")
             /\ u.spaces[d] = RamBlock(u)
    BY <1>1, ReloadEffect
  <1>4. s.misuse \subseteq u.misuse
    BY <1>3
  <1>5. Attached(u, e)
    BY <1>2, <1>3, LoadedGen DEF Attached, RamBlock
  <1>6. d # NoData /\ ~u.em[e].romLoaded => Crashed(u)
    BY <1>2, <1>3, MemoryCrash
  <1> HIDE DEF d
  <1>7. Bound(u, e)
    BY <1>2, <1>5, <1>6, LoadedGen, CoreAssumption DEF Bound
  <1>8. \A f \in Emulators \ {e} : Bound(u, f)
    BY <1>1, <1>2, <1>4, BoundStays, OthersIdle DEF HostInv, OthersSame
  <1>9. Quiet(u)
    BY <1>2, <1>3 DEF HostInv, Quiet, Misused
  <1> QED BY <1>2, <1>7, <1>8, <1>9 DEF HostInv

\* A core that publishes its map on reset does so for the game it runs.
LEMMA MapAtResetHost ==
  ASSUME NEW s, HostInv(s), NEW e \in Emulators,
         s.phase = "game" => s.em[e].romLoaded,
         NEW u, u = MapAtReset(s, e)
  PROVE HostInv(u)
  <1>1. CASE ~(s.phase = "game" /\ s.em[e].core \in MapsAtRun)
    BY <1>1 DEF MapAtReset
  <1>2. CASE s.phase = "game" /\ s.em[e].core \in MapsAtRun
    <2>1. u = SetMemoryMaps(s, e)
      BY <1>2 DEF MapAtReset
    <2>2. OwnerInv(s) /\ Typed(s) /\ s.em[e].romLoaded
      BY <1>2 DEF HostInv, OwnerInv
    <2>3. /\ s.em[e].handle = s.gen /\ s.em[e].core # Stella
          /\ \A f \in Emulators \ {e} : ~s.em[f].romLoaded
      BY <1>2, <2>2, LoadedGen, OthersIdle, CoreAssumption
    <2>4. /\ OwnerInv(u) /\ SameOwnership(u, s) /\ u.misuse = s.misuse
          /\ u.em[e] = [s.em[e] EXCEPT !.map = s.gen]
          /\ OthersSame(u, s, e)
      BY <2>1, <2>2, SetMapsOwner, SetMapsEffect DEF OthersSame
    <2>5. ASSUME NEW c \in Datas
          PROVE u.spaces[c] = MapBlock(s) \/ u.spaces[c] = s.spaces[c]
      BY <2>1, <2>2, SetMapsSpaces
    <2>6. s.em[e] \in EmulatorState
      BY <2>2 DEF Typed
    <2>7. u.em[e].map = s.gen /\ u.em[e].space = s.em[e].space
      BY <2>4, <2>6 DEF EmulatorState
    <2>8. Attached(u, e)
      <3> SUFFICES ASSUME u.em[e].space # NoData,
                          NEW b \in u.spaces[u.em[e].space]
                   PROVE b.gen = u.em[e].handle
        BY DEF Attached
      <3>1. u.em[e].space \in Datas
        BY <2>6, <2>7 DEF EmulatorState
      <3>2. u.em[e].handle = s.em[e].handle
        BY <2>4 DEF SameOwnership
      <3> QED BY <2>2, <2>3, <2>5, <2>7, <3>1, <3>2
              DEF HostInv, Bound, Attached, MapBlock
    <2>9. Bound(u, e)
      BY <2>2, <2>3, <2>4, <2>7, <2>8 DEF Bound, SameOwnership
    <2>10. \A f \in Emulators \ {e} : Bound(u, f)
      BY <2>3, <2>4, BoundStays DEF HostInv, OthersSame
    <2> QED BY <2>4, <2>9, <2>10 DEF HostInv, Quiet
  <1> QED BY <1>1, <1>2

LEMMA ResetHost ==
  ASSUME NEW s, HostInv(s), ~Crashed(s), NEW e \in Emulators, s.loaded = e,
         NEW out, NEW u, u = Reset(s, e, out)
  PROVE HostInv(u)
  <1> DEFINE clear == [s EXCEPT !.em[e].mask = {}]
             t == IF s.em[e].core = Stella THEN Reload(clear, e, out) ELSE clear
             p == MapAtReset(t, e)
  <1>1. {} \in SUBSET Keys
    OBVIOUS
  <1>2. HostInv(clear) /\ SameOwnership(clear, s) /\ clear.misuse = s.misuse
    BY <1>1, MaskHost
  <1>3. u = Call(p, "retro_reset")
    BY DEF Reset
  <1> HIDE DEF clear
  <1>4. ~Crashed(clear) /\ clear.loaded = e /\ clear.em[e].core = s.em[e].core
    BY <1>2 DEF Crashed, SameOwnership
  <1>5. HostInv(t) /\ (t.phase = "game" => t.em[e].romLoaded)
    <2>1. CASE s.em[e].core = Stella
      <3>1. t = Reload(clear, e, out)
        BY <2>1
      <3> HIDE DEF t
      <3> QED BY <1>2, <1>4, <2>1, <3>1, ReloadHost
    <2>2. CASE s.em[e].core # Stella
      <3>1. t = clear
        BY <2>2
      <3> QED BY <1>2, <1>4, <3>1, GamePhase DEF HostInv
    <2> QED BY <2>1, <2>2
  <1> HIDE DEF t
  <1>6. HostInv(p)
    BY <1>5, MapAtResetHost
  <1> HIDE DEF p
  <1> QED BY <1>3, <1>6, CallHost DEF FrameCalls

LEMMA UnserializeHost ==
  ASSUME NEW s, HostInv(s), ~Crashed(s), NEW e \in Emulators, s.loaded = e,
         NEW out, NEW u, u = Unserialize(s, e, out)
  PROVE HostInv(u)
  <1> DEFINE t == IF s.em[e].core = Stella THEN Reset(s, e, out) ELSE s
  <1>1. HostInv(t)
    BY ResetHost
  <1>2. u = Call(t, "retro_unserialize")
    BY DEF Unserialize
  <1> HIDE DEF t
  <1> QED BY <1>1, <1>2, CallHost DEF FrameCalls

\* Reattaching the address space of a game that runs.
LEMMA ConfigureDataEffect ==
  ASSUME NEW s, OwnerInv(s), NEW e \in Emulators, NEW d \in Datas,
         s.phase = "game", NEW u, u = ConfigureData(s, e, d)
  PROVE /\ OwnerInv(u) /\ SameOwnership(u, s) /\ u.misuse = s.misuse
        /\ OthersSame(u, s, e)
        /\ u.em[e].space = d /\ u.em[e].map = s.em[e].map
        /\ u.em[e].img = s.em[e].img
        /\ s.em[e].map = 0 => u.spaces[d] = RamBlock(s)
        /\ s.em[e].map # 0 =>
             u.spaces[d] = KeptMap(s, e)
        /\ \A c \in Datas \ {d} : u.spaces[c] = s.spaces[c]
  <1> DEFINE r == [s.em[e] EXCEPT !.space = d]
             a == [s EXCEPT !.em[e] = r]
             b == [a EXCEPT !.spaces[d] = {}]
             t == ReconfigureAddressSpace(b, e)
             B == RamBlock(s)
             M == KeptMap(s, e)
  <1>1. s.em[e] \in EmulatorState /\ s.gen \in Gen /\ Typed(s)
    BY DEF OwnerInv, Typed
  <1>2. /\ r \in EmulatorState /\ r.handle = s.em[e].handle
        /\ r.core = s.em[e].core /\ r.romLoaded = s.em[e].romLoaded
        /\ r.romPath = s.em[e].romPath /\ r.space = d
        /\ r.map = s.em[e].map /\ r.img = s.em[e].img
    BY <1>1 DEF EmulatorState
  <1>3. b = [s EXCEPT !.em[e].space = d, !.spaces[d] = {}]
    BY DEF OwnerInv, Typed
  <1>4. u = IF t.spaces[d] = {} /\ s.phase = "game"
            THEN [t EXCEPT !.spaces[d] = B] ELSE t
    BY <1>3 DEF ConfigureData, RamBlock
  <1>5. B \in SUBSET Block /\ {} \in SUBSET Block /\ B # {} /\ M # {}
    BY <1>1 DEF Block, RamBlock, KeptMap
  <1> HIDE DEF r, B
  <1>6. /\ OwnerInv(a) /\ SameOwnership(a, s) /\ Typed(a) /\ a.em[e] = r
        /\ a.misuse = s.misuse /\ a.spaces = s.spaces /\ OthersSame(a, s, e)
    BY <1>1, <1>2, PutOwner, PutEmulator DEF OwnerInv, OthersSame
  <1> HIDE DEF a
  <1>7. /\ Typed(b) /\ SameOwnership(b, a) /\ b.misuse = a.misuse
        /\ b.em = a.em /\ b.spaces[d] = {}
        /\ \A c \in Datas \ {d} : b.spaces[c] = a.spaces[c]
    BY <1>5, <1>6 DEF Typed, SameOwnership
  <1> HIDE DEF b, M
  <1>8. /\ Typed(t) /\ SameOwnership(t, b) /\ t.misuse = b.misuse
        /\ t.em = b.em
    BY <1>7, ReconfigureEffect
  <1>9. ASSUME NEW c \in Datas
        PROVE t.spaces[c] =
                IF c = b.em[e].space /\ b.em[e].map # 0 /\ b.spaces[c] = {}
                THEN KeptMap(b, e) ELSE b.spaces[c]
    BY <1>7, ReconfigureSpaces
  <1>10. b.em[e].space = d /\ b.em[e].map = s.em[e].map
    BY <1>2, <1>6, <1>7
  <1> HIDE DEF t
  <1>11. /\ s.em[e].map # 0 => t.spaces[d] = M
         /\ s.em[e].map = 0 => t.spaces[d] = {}
         /\ \A c \in Datas \ {d} : t.spaces[c] = s.spaces[c]
    BY <1>6, <1>7, <1>9, <1>10 DEF M, KeptMap
  <1>12. OwnerInv(u)
    BY ConfigureDataOwner
  <1>13. /\ SameOwnership(u, t) /\ u.misuse = t.misuse /\ u.em = t.em
         /\ s.em[e].map # 0 => u.spaces[d] = M
         /\ s.em[e].map = 0 => u.spaces[d] = B
         /\ \A c \in Datas \ {d} : u.spaces[c] = t.spaces[c]
    <2>1. CASE s.em[e].map = 0
      <3>1. u = [t EXCEPT !.spaces[d] = B]
        BY <1>4, <1>11, <2>1
      <3> QED BY <1>5, <1>8, <2>1, <3>1 DEF Typed, SameOwnership
    <2>2. CASE s.em[e].map # 0
      <3>1. u = t
        BY <1>4, <1>5, <1>11, <2>2
      <3> QED BY <1>11, <2>2, <3>1 DEF SameOwnership
    <2> QED BY <2>1, <2>2
  <1>14. SameOwnership(u, s)
    BY <1>6, <1>7, <1>8, <1>13 DEF SameOwnership
  <1>15. /\ OthersSame(u, s, e) /\ u.em[e] = r /\ u.misuse = s.misuse
         /\ \A c \in Datas \ {d} : u.spaces[c] = s.spaces[c]
    BY <1>6, <1>7, <1>8, <1>11, <1>13 DEF OthersSame
  <1> QED BY <1>2, <1>12, <1>13, <1>14, <1>15 DEF M, B

LEMMA ConfigureDataHost ==
  ASSUME NEW s, HostInv(s), NEW e \in Emulators, NEW d \in Datas,
         s.em[e].romLoaded, NEW u, u = ConfigureData(s, e, d)
  PROVE HostInv(u)
  <1>1. /\ OwnerInv(s) /\ s.phase = "game" /\ s.em[e].handle = s.gen
        /\ s.loaded = e
    BY LoadedGen DEF HostInv
  <1>2. /\ OwnerInv(u) /\ SameOwnership(u, s) /\ u.misuse = s.misuse
        /\ OthersSame(u, s, e) /\ u.em[e].space = d
        /\ u.em[e].map = s.em[e].map
    BY <1>1, ConfigureDataEffect
  <1>3. /\ s.em[e].map = 0 => u.spaces[d] = RamBlock(s)
        /\ s.em[e].map # 0 =>
             u.spaces[d] = KeptMap(s, e)
    BY <1>1, ConfigureDataEffect
  <1>4. \A b \in u.spaces[d] : b.gen = s.em[e].handle
    BY <1>1, <1>3 DEF HostInv, Bound, RamBlock, KeptMap
  <1>5. Bound(u, e)
    BY <1>2, <1>4 DEF HostInv, Bound, Attached, SameOwnership
  <1>6. \A f \in Emulators \ {e} : Bound(u, f)
    BY <1>1, <1>2, BoundStays, OthersIdle DEF HostInv, OthersSame
  <1> QED BY <1>2, <1>5, <1>6 DEF HostInv, Quiet

LEMMA DestroyHost ==
  ASSUME NEW s, HostInv(s), ~Crashed(s), NEW e \in Emulators,
         NEW u, u = Destroy(s, e)
  PROVE HostInv(u)
  <1> DEFINE idle == UnloadRom(s, e)
             t == UnloadCore(idle, e)
  <1>1. HostInv(idle) /\ ~Crashed(idle)
    BY UnloadRomHost
  <1>2. u = [t EXCEPT !.em[e] = FreshEmulator]
    BY DEF Destroy
  <1> HIDE DEF idle
  <1>3. HostInv(t) /\ Typed(t)
    BY <1>1, UnloadCoreHost DEF HostInv, OwnerInv
  <1>4. OwnerInv(u)
    BY DestroyOwner DEF HostInv
  <1> HIDE DEF t
  <1>5. FreshEmulator \in EmulatorState
    BY CoreAssumption DEF FreshEmulator, EmulatorState, Gen
  <1>6. /\ u.em[e] = FreshEmulator /\ u.misuse = t.misuse
        /\ u.spaces = t.spaces /\ OthersSame(u, t, e)
    BY <1>2, <1>3, <1>5, PutEmulator DEF OthersSame
  <1>7. Bound(u, e)
    BY <1>6 DEF Bound, Attached, FreshEmulator
  <1>8. \A f \in Emulators \ {e} : Bound(u, f)
    BY <1>3, <1>6, BoundStays DEF HostInv, OthersSame
  <1>9. Quiet(u)
    BY <1>3, <1>6 DEF HostInv, Quiet
  <1> QED BY <1>4, <1>7, <1>8, <1>9 DEF HostInv

-----------------------------------------------------------------------------
HInv == HostInv(host)

LEMMA InitHost == Init => HostInv(host)
  <1> SUFFICES ASSUME Init PROVE HostInv(host)
    OBVIOUS
  <1>1. \A e \in Emulators : host.em[e] = FreshEmulator
    BY DEF Init
  <1>2. \A e \in Emulators : Bound(host, e)
    BY <1>1 DEF Bound, Attached, FreshEmulator
  <1>3. Quiet(host)
    BY DEF Init, Quiet
  <1> QED BY <1>2, <1>3, InitOwner DEF HostInv

LEMMA SerializeHost ==
  ASSUME NEW s, HostInv(s), NEW e \in Emulators, s.loaded = e
  PROVE HostInv(Serialize(s))
  <1>1. s.phase # "closed"
    BY DEF HostInv, OwnerInv, OwnsCore
  <1> QED BY <1>1, CallHost DEF Serialize, FrameCalls

LEMMA NextHost == HostInv(host) /\ [Next]_host => HostInv(host')
  <1> SUFFICES ASSUME HostInv(host), [Next]_host PROVE HostInv(host')
    OBVIOUS
  <1>1. CASE UNCHANGED host
    BY <1>1
  <1>2. CASE Next
    <2>1. ~Crashed(host)
      BY <1>2 DEF Next
    <2>2. ASSUME NEW e \in Emulators, DoLoadRom(e) PROVE HostInv(host')
      BY <2>1, <2>2, LoadRomHost DEF DoLoadRom
    <2>3. ASSUME NEW e \in Emulators, DoUnloadRom(e) PROVE HostInv(host')
      BY <2>1, <2>3, UnloadRomHost DEF DoUnloadRom
    <2>4. ASSUME NEW e \in Emulators, DoUnloadCore(e) PROVE HostInv(host')
      BY <2>1, <2>4, UnloadCoreHost DEF DoUnloadCore
    <2>5. ASSUME NEW e \in Emulators, DoDestroy(e) PROVE HostInv(host')
      BY <2>1, <2>5, DestroyHost DEF DoDestroy
    <2>6. ASSUME NEW e \in Emulators, DoSetKey(e) PROVE HostInv(host')
      <3>1. PICK k \in Keys, active \in BOOLEAN :
              host' = [host EXCEPT !.em[e].mask =
                         IF active THEN @ \cup {k} ELSE @ \ {k}]
        BY <2>6 DEF DoSetKey
      <3> DEFINE K == IF active THEN host.em[e].mask \cup {k}
                      ELSE host.em[e].mask \ {k}
      <3>2. K \in SUBSET Keys
        BY DEF HostInv, OwnerInv, Typed, EmulatorState
      <3>3. host' = [host EXCEPT !.em[e].mask = K]
        BY <3>1 DEF HostInv, OwnerInv, Typed, EmulatorState
      <3> HIDE DEF K
      <3> QED BY <3>2, <3>3, MaskHost
    <2>7. ASSUME NEW e \in Emulators, DoRun(e) PROVE HostInv(host')
      <3>1. PICK data \in Pictures(host, e) : host' = Run(host, e, data)
        BY <2>7 DEF DoRun
      <3> QED BY <2>7, <3>1, RunHost, PictureTyped DEF DoRun, HostInv
    <2>8. ASSUME NEW e \in Emulators, DoReset(e) PROVE HostInv(host')
      BY <2>1, <2>8, ResetHost DEF DoReset
    <2>9. ASSUME NEW e \in Emulators, DoUnserialize(e) PROVE HostInv(host')
      BY <2>1, <2>9, UnserializeHost DEF DoUnserialize
    <2>10. ASSUME NEW e \in Emulators, DoSerialize(e) PROVE HostInv(host')
      BY <2>10, SerializeHost DEF DoSerialize
    <2>11. ASSUME NEW e \in Emulators, DoConfigureData(e) PROVE HostInv(host')
      BY <2>11, ConfigureDataHost DEF DoConfigureData
    <2> QED BY <1>2, <2>2, <2>3, <2>4, <2>5, <2>6, <2>7, <2>8, <2>9, <2>10,
               <2>11 DEF Next
  <1> QED BY <1>1, <1>2

LEMMA HostInvariant == Spec => []HInv
  <1>1. Init => HInv
    BY InitHost DEF HInv
  <1>2. HInv /\ [Next]_host => HInv'
    BY NextHost DEF HInv
  <1> QED BY <1>1, <1>2, PTL DEF Spec

\* Whatever is loaded, reset, reloaded or reattached, no block of the address
\* space of a running game points into a library that has been closed.
THEOREM AttachedNeverDangles == Spec => []AttachedIsLive
  <1>1. HInv => AttachedIsLive
    BY DEF HInv, HostInv, Bound, AttachedIsLive
  <1> QED BY <1>1, HostInvariant, PTL

\* No caller gets a frame or a snapshot out of a library that is closed: what
\* reaches one comes from reset() and unserialize() after a reload that failed.
THEOREM OnlyReloadReachesClosed == Spec => []ClosedLibraryCalls
  <1>1. HInv => ClosedLibraryCalls
    <2> SUFFICES ASSUME HInv, NEW m \in host.misuse, m[2] = "closed"
                 PROVE m[1] \in {"retro_get_memory", "retro_reset",
                                 "retro_unserialize"}
      BY DEF ClosedLibraryCalls
    <2>1. m \in Calls \X Phases
      BY DEF HInv, HostInv, OwnerInv, Typed
    <2>2. m[1] \in {"retro_init", "retro_deinit", "retro_load_game",
                     "retro_unload_game", "retro_run", "retro_reset",
                     "retro_serialize", "retro_unserialize",
                     "retro_get_memory", "dlclose"}
      BY <2>1 DEF Calls, Allowed
    <2>3. /\ m[1] \notin {"retro_init", "retro_load_game", "retro_unload_game",
                          "retro_deinit", "dlclose"}
          /\ m[1] \notin {"retro_run", "retro_serialize"}
      BY DEF HInv, HostInv, OwnerInv, Lifecycle, Quiet
    <2> QED BY <2>2, <2>3
  <1> QED BY <1>1, HostInvariant, PTL

\* The loadRom of an emulator gets nowhere while another one is loaded.
LEMMA LoadRomRefused ==
  ASSUME NEW s, OwnerInv(s), NEW e \in Emulators, NEW o \in Emulators, o # e,
         s.loaded = o, NEW rom, NEW out
  PROVE LoadRom(s, e, rom, out) = s /\ ~s.em[e].romLoaded
  <1>1. s.em[e].handle = 0 /\ ~s.em[e].romLoaded
    BY DEF OwnerInv, OwnsCore
  <1>2. s.loaded # NoEmulator
    BY CoreAssumption
  <1>3. UnloadRom(s, e) = s /\ SwapCore(s, e, CoreOf[rom]) = s
    BY <1>1 DEF UnloadRom, SwapCore, UnloadCore
  <1>4. LoadCore(s, e, CoreOf[rom], out) = s
    BY <1>2 DEF LoadCore
  <1> QED BY <1>1, <1>3, <1>4 DEF LoadRom

\* While one emulator is loaded, loadRom on another changes nothing at all:
\* neither the other one, nor the library, nor any address space.
THEOREM SecondLoadChangesNothing == Spec => SecondLoadRefused
  <1> DEFINE Refused ==
        \A e, o \in Emulators :
          o # e /\ host.loaded = o /\ DoLoadRom(e) =>
            /\ ~host'.em[e].romLoaded
            /\ host'.em[o] = host.em[o]
            /\ host'.loaded = o /\ host'.phase = host.phase
            /\ host'.spaces = host.spaces
  <1>1. HInv /\ [Next]_host => [Refused]_host
    <2> SUFFICES ASSUME HInv, NEW e \in Emulators, NEW o \in Emulators, o # e,
                        host.loaded = o, DoLoadRom(e)
                 PROVE host' = host /\ ~host.em[e].romLoaded
      OBVIOUS
    <2> QED BY LoadRomRefused DEF HInv, HostInv, DoLoadRom
  <1> QED BY <1>1, HostInvariant, PTL DEF Spec, SecondLoadRefused
-----------------------------------------------------------------------------
(***************************************************************************)
(* Part 3.  Python.  The order in which the binding and RetroEnv call the  *)
(* member functions keeps every call of libretro.h legal, gives every      *)
(* environment the whole core, and lets nobody read a frame of a library   *)
(* that is gone.  The invariant is a predicate on the host record, the     *)
(* status of the environments and the history of set_state, so that the    *)
(* lemmas follow the constructor, reset, close and the collector.          *)
(***************************************************************************)
Maps == MapsAtLoad \cup MapsAtRun

\* The program, or a cycle it has let go of, still holds the environment.
Held(st, v) == st[v] \in {"open", "garbage"}

\* The library has seen nothing but legal calls and the dlclose of a reload.
Clean(s) == s.misuse \subseteq {<<"dlclose", "game">>}

\* A game runs in v and v has the memory map of its core, if that has one.
Playing(s, v) ==
  /\ s.loaded = v /\ s.em[v].romLoaded
  /\ s.em[v].core \in Maps => s.em[v].map = s.gen
  /\ s.em[v].core \notin Maps => s.em[v].map = 0

\* What the address space of v has to hold.
DataBlocks(s, v) == IF s.em[v].core \in Maps THEN MapBlock(s) ELSE RamBlock(s)

\* v is completely set up: its data lies over the library that is open.
Running(s, v) ==
  /\ Playing(s, v) /\ s.em[v].space = DataOf[v]
  /\ s.spaces[DataOf[v]] = DataBlocks(s, v)

\* The frame v shows comes from the library that is open.
Framed(s, v) == s.em[v].img = s.gen

\* A core that repeats frames never leaves v without a picture of its own.
Repeats(s, v) == s.em[v].core \in Dupes => Framed(s, v)

PyCore(s, st) ==
  /\ HostInv(s) /\ Clean(s)
  /\ \A v \in Emulators :
       /\ Held(st, v) => Running(s, v) /\ Repeats(s, v)
       /\ ~Held(st, v) => s.em[v] = FreshEmulator

LEMMA CleanAlive ==
  ASSUME NEW s, Clean(s)
  PROVE ~Crashed(s)
  BY DEF Clean, Crashed

\* A game that runs has its library's generation for a handle, which is not
\* the null pointer.
LEMMA PlayingGame ==
  ASSUME NEW s, HostInv(s), NEW v \in Emulators, Playing(s, v)
  PROVE /\ OwnerInv(s) /\ s.phase = "game" /\ s.gen # 0
        /\ s.em[v].core \in Cores /\ ~MapsInRun(s, v)
  BY LoadedGen DEF HostInv, OwnerInv, OwnsCore, Playing, MapsInRun, Maps

\* A call made in the middle of a game is legal.
LEMMA GameCall ==
  ASSUME NEW s, Typed(s), s.phase = "game",
         NEW fn \in FrameCalls
  PROVE Call(s, fn) = s /\ Misused(s, fn) = {}
  BY DEF Call, Misused, FrameCalls, Allowed

\* Running a frame of a game that runs changes the frame only.
LEMMA RunPlaying ==
  ASSUME NEW s, HostInv(s), Clean(s), NEW v \in Emulators, Playing(s, v),
         Repeats(s, v), NEW data \in Pictures(s, v), NEW u, u = Run(s, v, data)
  PROVE /\ HostInv(u) /\ Clean(u) /\ Playing(u, v) /\ Framed(u, v)
        /\ OthersSame(u, s, v) /\ u.em[v].space = s.em[v].space
        /\ u.em[v].core = s.em[v].core /\ u.gen = s.gen
        /\ \A c \in Datas : u.spaces[c] = s.spaces[c]
  <1>1. /\ OwnerInv(s) /\ s.phase = "game" /\ ~MapsInRun(s, v) /\ s.loaded = v
        /\ data \in Gen /\ s.gen # 0
    BY PlayingGame, PictureTyped DEF Playing
  <1>2. HostInv(u)
    BY <1>1, RunHost
  <1>3. /\ u.misuse = s.misuse \cup Misused(s, "retro_run")
        /\ OthersSame(u, s, v) /\ SameOwnership(u, s)
        /\ u.em[v].space = s.em[v].space /\ u.em[v].map = s.em[v].map
        /\ u.em[v].img = IF data # 0 THEN data ELSE s.em[v].img
    BY <1>1, RunEffect
  <1>4. \A c \in Datas : u.spaces[c] = s.spaces[c]
    BY <1>1, RunEffect
  <1>5. Misused(s, "retro_run") = {}
    BY <1>1 DEF Misused, Allowed
  <1>6. Clean(u)
    BY <1>3, <1>5 DEF Clean
  <1>7. u.em[v].img = s.gen
    BY <1>1, <1>3 DEF Pictures, Repeats, Framed
  <1> QED BY <1>2, <1>3, <1>4, <1>6, <1>7 DEF Playing, Framed, SameOwnership

LEMMA RunRunning ==
  ASSUME NEW s, HostInv(s), Clean(s), NEW v \in Emulators, Running(s, v),
         Repeats(s, v), NEW data \in Pictures(s, v), NEW u, u = Run(s, v, data)
  PROVE /\ HostInv(u) /\ Clean(u) /\ Running(u, v) /\ Framed(u, v)
        /\ OthersSame(u, s, v)
  <1>1. DataOf[v] \in Datas
    BY PyAssumption
  <1>2. Playing(s, v)
    BY DEF Running
  <1>3. /\ HostInv(u) /\ Clean(u) /\ Playing(u, v) /\ Framed(u, v)
        /\ OthersSame(u, s, v) /\ u.em[v].space = s.em[v].space
        /\ u.em[v].core = s.em[v].core /\ u.gen = s.gen
        /\ u.spaces[DataOf[v]] = s.spaces[DataOf[v]]
    BY <1>1, <1>2, RunPlaying
  <1>4. DataBlocks(u, v) = DataBlocks(s, v)
    BY <1>3 DEF DataBlocks, MapBlock, RamBlock
  <1> QED BY <1>3, <1>4 DEF Running

\* The destructor leaves the slot of an object not yet constructed.
LEMMA DestroyEffect ==
  ASSUME NEW s, HostInv(s), Clean(s), NEW v \in Emulators,
         NEW u, u = Destroy(s, v)
  PROVE /\ HostInv(u) /\ Clean(u) /\ OthersSame(u, s, v)
        /\ u.em[v] = FreshEmulator
  <1> DEFINE idle == UnloadRom(s, v)
             t == UnloadCore(idle, v)
  <1>1. ~Crashed(s) /\ OwnerInv(s)
    BY CleanAlive DEF HostInv
  <1>2. HostInv(u)
    BY <1>1, DestroyHost
  <1>3. OwnerInv(idle) /\ idle.misuse = s.misuse /\ OthersSame(idle, s, v)
    BY <1>1, UnloadRomOwner, UnloadRomEffect
  <1>4. u = [t EXCEPT !.em[v] = FreshEmulator]
    BY DEF Destroy
  <1> HIDE DEF idle
  <1>5. /\ OwnerInv(t) /\ t.misuse = idle.misuse /\ OthersSame(t, idle, v)
    BY <1>3, UnloadCoreOwner, UnloadCoreEffect
  <1> HIDE DEF t
  <1>6. FreshEmulator \in EmulatorState /\ Typed(t)
    BY <1>5, CoreAssumption DEF FreshEmulator, EmulatorState, Gen, OwnerInv
  <1>7. /\ u.em[v] = FreshEmulator /\ u.misuse = t.misuse
        /\ OthersSame(u, t, v)
    BY <1>4, <1>6, PutEmulator DEF OthersSame
  <1> QED BY <1>2, <1>3, <1>5, <1>7 DEF OthersSame, Clean

\* The constructor of PyRetroEmulator either gives up, and then nothing is left
\* of its object, or runs a frame of the game it has loaded.
LEMMA ConstructEffect ==
  ASSUME NEW s, HostInv(s), Clean(s), NEW v \in Emulators,
         s.em[v] = FreshEmulator, NEW rom \in Roms, NEW out,
         NEW u, u = Construct(s, v, rom, out)
  PROVE /\ HostInv(u) /\ Clean(u) /\ OthersSame(u, s, v)
        /\ ~u.em[v].romLoaded => u.em[v] = FreshEmulator
        /\ u.em[v].romLoaded =>
             s.loaded = NoEmulator /\ Playing(u, v) /\ Framed(u, v)
  <1> DEFINE t == LoadRom(s, v, rom, out)
  <1>1. CASE s.loaded # NoEmulator
    BY <1>1 DEF Construct, OthersSame, FreshEmulator
  <1>2. CASE s.loaded = NoEmulator
    <2>1. /\ OwnerInv(s) /\ ~Crashed(s) /\ rom \in Roms \cup {NoRom}
          /\ SpaceLeft(s, v) = NoData /\ MapLeft(s, v) = 0
      BY CleanAlive DEF HostInv, SpaceLeft, MapLeft, FreshEmulator
    <2>2. HostInv(t) /\ OwnerInv(t)
      BY <2>1, LoadRomHost, LoadRomOwner
    <2>3. /\ t.misuse = s.misuse /\ OthersSame(t, s, v)
          /\ t.em[v].romLoaded => t.em[v].core = CoreOf[rom]
          /\ t.em[v].map = IF t.em[v].romLoaded /\ CoreOf[rom] \in MapsAtLoad
                           THEN t.gen ELSE 0
      BY <2>1, LoadRomEffect
    <2>4. u = IF t.em[v].romLoaded THEN Run(t, v, t.gen) ELSE Destroy(t, v)
      BY <1>2 DEF Construct
    <2>5. Clean(t)
      BY <2>3 DEF Clean
    <2> HIDE DEF t
    <2>6. CASE ~t.em[v].romLoaded
      <3>1. u = Destroy(t, v)
        BY <2>4, <2>6
      <3>2. ~FreshEmulator.romLoaded
        BY DEF FreshEmulator
      <3> QED BY <2>2, <2>3, <2>5, <3>1, <3>2, DestroyEffect DEF OthersSame
    <2>7. CASE t.em[v].romLoaded
      <3>1. u = Run(t, v, t.gen)
        BY <2>4, <2>7
      <3>2. /\ t.loaded = v /\ t.phase = "game" /\ t.gen # 0 /\ t.gen \in Gen
        BY <2>2, <2>7, LoadedGen DEF OwnerInv, OwnsCore, Typed
      <3>3. HostInv(u)
        BY <2>2, <3>1, <3>2, RunHost
      <3>4. /\ u.misuse = t.misuse \cup Misused(t, "retro_run")
            /\ OthersSame(u, t, v) /\ SameOwnership(u, t)
            /\ u.em[v].img = t.gen
            /\ MapsInRun(t, v) => u.em[v].map = t.gen
            /\ ~MapsInRun(t, v) => u.em[v].map = t.em[v].map
        BY <2>2, <3>1, <3>2, RunEffect
      <3>5. Misused(t, "retro_run") = {}
        BY <3>2 DEF Misused, Allowed
      <3>6. Clean(u) /\ OthersSame(u, s, v)
        BY <2>3, <2>5, <3>4, <3>5 DEF Clean, OthersSame
      <3>7. Playing(u, v) /\ Framed(u, v)
        BY <2>3, <2>7, <3>2, <3>4
           DEF Playing, Framed, SameOwnership, MapsInRun, Maps
      <3>8. u.em[v].romLoaded
        BY <3>7 DEF Playing
      <3> QED BY <1>2, <3>3, <3>6, <3>7, <3>8
    <2> QED BY <2>6, <2>7
  <1> QED BY <1>1, <1>2

\* RetroEnv.__init__ after the constructor: because the map is known by then,
\* the data is laid over it.
LEMMA ConfiguredEffect ==
  ASSUME NEW s, HostInv(s), Clean(s), NEW v \in Emulators, Playing(s, v),
         Framed(s, v), NEW data \in Pictures(s, v),
         NEW u, u = Configured(s, v, data)
  PROVE /\ HostInv(u) /\ Clean(u) /\ Running(u, v) /\ Framed(u, v)
        /\ OthersSame(u, s, v)
  <1> DEFINE d == DataOf[v]
             t == ConfigureData(s, v, d)
  <1>1. d \in Datas
    BY PyAssumption
  <1>2. OwnerInv(s) /\ s.phase = "game" /\ s.gen # 0 /\ s.em[v].romLoaded
    BY PlayingGame DEF Playing
  <1>3. HostInv(t)
    BY <1>1, <1>2, ConfigureDataHost
  <1>4. /\ SameOwnership(t, s) /\ t.misuse = s.misuse
        /\ OthersSame(t, s, v) /\ t.em[v].space = d
        /\ t.em[v].map = s.em[v].map /\ t.em[v].img = s.em[v].img
        /\ s.em[v].map = 0 => t.spaces[d] = RamBlock(s)
        /\ s.em[v].map # 0 => t.spaces[d] = KeptMap(s, v)
    BY <1>1, <1>2, ConfigureDataEffect
  <1>5. u = Run(t, v, data)
    BY DEF Configured
  <1> HIDE DEF t
  <1>6. Clean(t) /\ Playing(t, v)
    BY <1>4 DEF Clean, Playing, SameOwnership
  <1>7. t.spaces[d] = DataBlocks(t, v)
    <2>1. CASE s.em[v].core \in Maps
      <3>1. KeptMap(s, v) = MapBlock(t) /\ t.em[v].core \in Maps
        BY <1>4, <2>1 DEF Playing, KeptMap, MapBlock, SameOwnership
      <3> QED BY <1>2, <1>4, <2>1, <3>1 DEF Playing, DataBlocks
    <2>2. CASE s.em[v].core \notin Maps
      <3>1. RamBlock(s) = RamBlock(t) /\ t.em[v].core \notin Maps
        BY <1>4, <2>2 DEF RamBlock, SameOwnership
      <3> QED BY <1>4, <2>2, <3>1 DEF Playing, DataBlocks
    <2> QED BY <2>1, <2>2
  <1>8. Running(t, v)
    BY <1>4, <1>6, <1>7 DEF Running
  <1>9. Repeats(t, v) /\ data \in Pictures(t, v)
    BY <1>4 DEF Repeats, Framed, Pictures, SameOwnership
  <1>10. /\ HostInv(u) /\ Clean(u) /\ Running(u, v) /\ Framed(u, v)
         /\ OthersSame(u, t, v)
    BY <1>3, <1>5, <1>6, <1>8, <1>9, RunRunning
  <1> QED BY <1>4, <1>10 DEF OthersSame

\* The keys do not matter to a game that runs.
LEMMA MaskRunning ==
  ASSUME NEW s, HostInv(s), Clean(s), NEW v \in Emulators, Running(s, v),
         NEW K \in SUBSET Keys, NEW u, u = [s EXCEPT !.em[v].mask = K]
  PROVE /\ HostInv(u) /\ Clean(u) /\ Running(u, v) /\ OthersSame(u, s, v)
        /\ SameOwnership(u, s) /\ u.em[v].img = s.em[v].img
  <1>1. OwnerInv(s)
    BY DEF HostInv
  <1>2. /\ HostInv(u) /\ SameOwnership(u, s) /\ OthersSame(u, s, v)
        /\ u.misuse = s.misuse /\ u.spaces = s.spaces
        /\ u.em[v].space = s.em[v].space /\ u.em[v].map = s.em[v].map
        /\ u.em[v].img = s.em[v].img
    BY <1>1, MaskHost, MaskEffect
  <1>3. DataBlocks(u, v) = DataBlocks(s, v)
    BY <1>2 DEF DataBlocks, MapBlock, RamBlock, SameOwnership
  <1> QED BY <1>2, <1>3 DEF Clean, Running, Playing, SameOwnership

\* A reload of Stella that does not end the process leaves the environment as
\* it was, over the library it has opened, and no frame.
LEMMA ReloadRunning ==
  ASSUME NEW s, HostInv(s), Clean(s), NEW v \in Emulators, Running(s, v),
         s.em[v].core = Stella, NEW out,
         NEW u, u = Reload(s, v, out), ~Crashed(u)
  PROVE /\ HostInv(u) /\ Clean(u) /\ Running(u, v) /\ OthersSame(u, s, v)
        /\ u.em[v].core = Stella
  <1> DEFINE d == DataOf[v]
  <1>1. /\ OwnerInv(s) /\ s.phase = "game" /\ s.loaded = v /\ ~Crashed(s)
        /\ s.em[v].romLoaded /\ s.em[v].space = d /\ s.em[v].map = 0
    BY PlayingGame, CleanAlive, CoreAssumption DEF Running, Playing, Maps
  <1>2. d \in Datas /\ d # NoData
    BY PyAssumption, CoreAssumption
  <1>3. HostInv(u)
    BY <1>1, ReloadHost
  <1>4. /\ OthersSame(u, s, v)
        /\ u.em[v].romLoaded => u.em[v].core = Stella
        /\ u.phase = "game" => u.em[v].romLoaded
        /\ u.em[v].space = d
        /\ u.em[v].map = IF u.em[v].romLoaded /\ u.em[v].core \in MapsAtLoad
                         THEN u.gen ELSE 0
        /\ u.misuse = s.misuse \cup Misused(s, "dlclose")
                        \cup Misused(u, "retro_get_memory")
        /\ u.spaces[d] = RamBlock(u)
    BY <1>1, <1>2, ReloadEffect
  <1>5. u.phase = "game"
    BY <1>4, MemoryCrash
  <1>6. u.loaded = v /\ Misused(u, "retro_get_memory") = {}
    BY <1>3, <1>4, <1>5, LoadedGen DEF HostInv, Misused, Allowed
  <1>7. Misused(s, "dlclose") = {<<"dlclose", "game">>}
    BY <1>1 DEF Misused, Allowed
  <1>8. Clean(u)
    BY <1>4, <1>6, <1>7 DEF Clean
  <1>9. u.em[v].core = Stella /\ Stella \notin Maps
    BY <1>4, <1>5, CoreAssumption DEF Maps
  <1>10. Running(u, v)
    BY <1>4, <1>5, <1>6, <1>9 DEF Running, Playing, DataBlocks, Maps
  <1> QED BY <1>3, <1>4, <1>8, <1>9, <1>10

\* set_state: a core that is not Stella goes on as it is, Stella is reset and
\* with that reloaded.
LEMMA UnserializeRunning ==
  ASSUME NEW s, HostInv(s), Clean(s), NEW v \in Emulators, Running(s, v),
         NEW out, NEW u, u = Unserialize(s, v, out), ~Crashed(u)
  PROVE /\ HostInv(u) /\ Clean(u) /\ Running(u, v) /\ OthersSame(u, s, v)
        /\ u.em[v].core = s.em[v].core
        /\ s.em[v].core # Stella => u = s
  <1>1. OwnerInv(s) /\ s.phase = "game" /\ s.loaded = v
    BY PlayingGame DEF Running, Playing
  <1>2. CASE s.em[v].core # Stella
    <2>1. Typed(s) /\ "retro_unserialize" \in FrameCalls
      BY <1>1 DEF OwnerInv, FrameCalls
    <2>2. u = s
      BY <1>1, <1>2, <2>1, GameCall DEF Unserialize
    <2> QED BY <2>2 DEF OthersSame
  <1>3. CASE s.em[v].core = Stella
    <2> DEFINE clear == [s EXCEPT !.em[v].mask = {}]
               t == Reload(clear, v, out)
               p == MapAtReset(t, v)
               q == Call(p, "retro_reset")
    <2>1. {} \in SUBSET Keys
      OBVIOUS
    <2>2. /\ HostInv(clear) /\ Clean(clear) /\ Running(clear, v)
          /\ OthersSame(clear, s, v) /\ clear.em[v].core = Stella
      <3>1. /\ HostInv(clear) /\ Clean(clear) /\ Running(clear, v)
            /\ OthersSame(clear, s, v) /\ SameOwnership(clear, s)
        BY <2>1, MaskRunning
      <3> HIDE DEF clear
      <3> QED BY <1>3, <3>1 DEF SameOwnership
    <2>3. u = Call(q, "retro_unserialize")
      BY <1>3 DEF Unserialize, Reset
    <2> HIDE DEF clear
    <2>4. ~Crashed(t) /\ HostInv(t)
      <3>1. HostInv(t) /\ OwnerInv(t)
        BY <2>2, ReloadHost, CleanAlive DEF HostInv, Running, Playing
      <3> HIDE DEF t
      <3>2. OwnerInv(p) /\ p.misuse = t.misuse
        BY <3>1, SetMapsOwner, SetMapsEffect, ZenonT(30) DEF MapAtReset, OwnerInv
      <3> HIDE DEF p
      <3>3. OwnerInv(q) /\ q.misuse = p.misuse \cup Misused(p, "retro_reset")
        BY <3>2, CallOwner, CallMisuse DEF FrameCalls, OwnerInv, Calls, Allowed
      <3> HIDE DEF q
      <3>4. u.misuse = q.misuse \cup Misused(q, "retro_unserialize")
        BY <2>3, <3>3, CallMisuse DEF OwnerInv, Calls, Allowed
      <3>5. t.misuse \subseteq u.misuse
        BY <3>2, <3>3, <3>4
      <3> QED BY <3>1, <3>5, CrashedStays
    <2>5. /\ Clean(t) /\ Running(t, v) /\ OthersSame(t, clear, v)
          /\ t.em[v].core = Stella
      BY <2>2, <2>4, ReloadRunning
    <2> HIDE DEF t
    <2>6. Playing(t, v) /\ Typed(t)
      BY <2>4, <2>5 DEF Running, HostInv, OwnerInv
    <2>7. t.phase = "game"
      BY <2>4, <2>6, PlayingGame
    <2>8. p = t
      BY <2>5, CoreAssumption DEF MapAtReset
    <2>9. q = t
      BY <2>6, <2>7, <2>8, GameCall DEF FrameCalls
    <2>10. u = t
      BY <2>3, <2>6, <2>7, <2>9, GameCall DEF FrameCalls
    <2> QED BY <1>3, <2>2, <2>4, <2>5, <2>10 DEF OthersSame
  <1> QED BY <1>2, <1>3

-----------------------------------------------------------------------------
\* One environment at most is held, and it is the one that is loaded.
LEMMA HeldIsLoaded ==
  ASSUME NEW s, NEW st, PyCore(s, st), NEW v \in Emulators
  PROVE Held(st, v) <=> s.loaded = v
  <1>1. Held(st, v) => s.loaded = v
    BY DEF PyCore, Running, Playing
  <1>2. ~Held(st, v) => s.em[v].handle = 0
    BY DEF PyCore, FreshEmulator
  <1> QED BY <1>1, <1>2 DEF PyCore, HostInv, OwnerInv, OwnsCore

\* An environment that changes alone, while no other one is held.
LEMMA CoreOfOne ==
  ASSUME NEW s, NEW st, PyCore(s, st), NEW v \in Emulators,
         NEW u, HostInv(u), Clean(u), OthersSame(u, s, v),
         NEW ut, \A w \in Emulators \ {v} : ut[w] = st[w] /\ ~Held(st, w),
         Held(ut, v) => Running(u, v), Held(ut, v) => Repeats(u, v),
         ~Held(ut, v) => u.em[v] = FreshEmulator
  PROVE PyCore(u, ut)
  <1> SUFFICES ASSUME NEW w \in Emulators, w # v
               PROVE ~Held(ut, w) /\ u.em[w] = FreshEmulator
    BY DEF PyCore
  <1> QED BY DEF PyCore, Held, OthersSame

LEMMA OthersNotHeld ==
  ASSUME NEW s, NEW st, PyCore(s, st), NEW v \in Emulators,
         Held(st, v) \/ s.loaded = NoEmulator
  PROVE \A w \in Emulators \ {v} : ~Held(st, w)
  BY HeldIsLoaded, CoreAssumption

\* What the interpreter leaves of the status after it has collected.
Swept(st, garbage) ==
  [w \in Emulators |-> IF w \in garbage THEN "absent" ELSE st[w]]

\* Collecting the garbage destroys the one emulator that can be in it.
LEMMA CollectedEffect ==
  ASSUME NEW s, NEW st, PyCore(s, st), NEW G,
         G = {v \in Emulators : st[v] = "garbage"},
         NEW u, u = Collected(s, G)
  PROVE PyCore(u, Swept(st, G))
  <1>1. Typed(s) /\ HostInv(s) /\ Clean(s)
    BY DEF PyCore, HostInv, OwnerInv
  <1>2. ASSUME NEW v \in G PROVE s.loaded = v /\ v \in Emulators
    BY HeldIsLoaded DEF Held
  <1>3. CASE s.loaded \notin G
    <2>1. G = {}
      BY <1>2, <1>3
    <2>2. u = s
      BY <1>1, <2>1 DEF Collected, Typed
    <2>3. \A w \in Emulators : Swept(st, G)[w] = st[w]
      BY <2>1 DEF Swept
    <2> QED BY <2>2, <2>3 DEF PyCore, Held
  <1>4. CASE s.loaded \in G
    <2> DEFINE v == s.loaded
               t == Destroy(s, v)
    <2>1. v \in Emulators /\ G = {v} /\ st[v] = "garbage"
      BY <1>2, <1>4
    <2>2. /\ HostInv(t) /\ Clean(t) /\ OthersSame(t, s, v)
          /\ t.em[v] = FreshEmulator
      BY <1>1, <2>1, DestroyEffect
    <2>3. u = [t EXCEPT !.em = [w \in Emulators |->
                                  IF w \in G THEN FreshEmulator ELSE @[w]]]
      BY <1>4 DEF Collected
    <2> HIDE DEF t
    <2>4. Typed(t)
      BY <2>2 DEF HostInv, OwnerInv
    <2>5. t.em = [w \in Emulators |-> IF w \in G THEN FreshEmulator ELSE t.em[w]]
      BY <2>1, <2>2, <2>4 DEF Typed
    <2>6. u = t
      BY <2>3, <2>4, <2>5 DEF Typed
    <2>7. ~Held(Swept(st, G), v)
      BY <2>1 DEF Held, Swept
    <2>8. \A w \in Emulators \ {v} : Swept(st, G)[w] = st[w] /\ ~Held(st, w)
      <3>1. Held(st, v)
        BY <2>1 DEF Held
      <3> QED BY <2>1, <3>1, OthersNotHeld DEF Swept
    <2> HIDE DEF v
    <2> QED BY <2>1, <2>2, <2>6, <2>7, <2>8, CoreOfOne
  <1> QED BY <1>3, <1>4

-----------------------------------------------------------------------------
PyInv ==
  /\ status \in [Emulators -> {"absent", "open", "closed", "garbage"}]
  /\ ScreenIsLive
  /\ ~Crashed(host) => PyCore(host, status)

LEMMA InitPy == PyInit => PyInv
  <1> SUFFICES ASSUME PyInit PROVE PyInv
    OBVIOUS
  <1>1. HostInv(host)
    BY InitHost DEF PyInit
  <1>2. Clean(host) /\ \A v \in Emulators : host.em[v] = FreshEmulator
    BY DEF PyInit, Init, Clean
  <1>3. \A v \in Emulators : ~Held(status, v)
    BY DEF PyInit, Held
  <1> QED BY <1>1, <1>2, <1>3 DEF PyInv, PyCore, PyInit, ScreenIsLive

\* The environment that is open, and what the others are.
LEMMA OpenRuns ==
  ASSUME NEW s, NEW st, PyCore(s, st), NEW v \in Emulators,
         st[v] = "open"
  PROVE /\ HostInv(s) /\ Clean(s) /\ Running(s, v) /\ Held(st, v)
        /\ Repeats(s, v)
        /\ \A w \in Emulators \ {v} : ~Held(st, w)
  BY OthersNotHeld DEF PyCore, Held

\* __init__ of an environment, from the constructor to data.load.
LEMMA MakeKeeps ==
  ASSUME PyInv, ~Crashed(host), NEW v \in Emulators, Make(v)
  PROVE PyInv'
  <1> DEFINE idle == Collected(host, Garbage)
             rest == Swept(status, Garbage)
  <1>1. PICK rom \in Roms, out \in Outcome, parses \in BOOLEAN :
          LET em == Construct(idle, v, rom, out)
          IN IF ~em.em[v].romLoaded
             THEN host' = em /\ status' = rest /\ UNCHANGED screen
             ELSE \E data \in Pictures(em, v) :
                    LET env == Configured(em, v, data)
                    IN IF ~parses
                       THEN /\ host' = Destroy(env, v) /\ status' = rest
                            /\ UNCHANGED screen
                       ELSE /\ host' = env
                            /\ status' = [rest EXCEPT ![v] = "open"]
                            /\ screen' = Screen(env, v, TRUE)
    BY DEF Make, Swept
  <1> DEFINE em == Construct(idle, v, rom, out)
  <1>2. PyCore(idle, rest)
    BY CollectedEffect DEF PyInv, Garbage
  <1>3. /\ rest \in [Emulators -> {"absent", "open", "closed", "garbage"}]
        /\ ~Held(rest, v)
    BY DEF Swept, Held, Make, PyInv
  <1> HIDE DEF idle, rest
  <1>4. HostInv(idle) /\ Clean(idle) /\ idle.em[v] = FreshEmulator
    BY <1>2, <1>3 DEF PyCore
  <1>5. /\ HostInv(em) /\ Clean(em) /\ OthersSame(em, idle, v)
        /\ ~em.em[v].romLoaded => em.em[v] = FreshEmulator
        /\ em.em[v].romLoaded =>
             idle.loaded = NoEmulator /\ Playing(em, v) /\ Framed(em, v)
    BY <1>4, ConstructEffect
  <1> HIDE DEF em
  <1>6. CASE ~em.em[v].romLoaded
    <2>1. host' = em /\ status' = rest /\ UNCHANGED screen
      BY <1>1, <1>6 DEF em
    <2>2. ASSUME NEW w \in Emulators PROVE
            /\ Held(rest, w) => Running(em, w) /\ Repeats(em, w)
            /\ ~Held(rest, w) => em.em[w] = FreshEmulator
      <3>1. Construct(idle, v, rom, out) = idle \/ idle.loaded = NoEmulator
        BY DEF Construct
      <3>2. CASE em = idle
        BY <1>2, <3>2 DEF PyCore
      <3>3. CASE idle.loaded = NoEmulator
        <4>1. ~Held(rest, w)
          BY <1>2, <3>3, HeldIsLoaded, CoreAssumption
        <4>2. em.em[w] = FreshEmulator
          BY <1>2, <1>5, <1>6, <4>1 DEF PyCore, OthersSame
        <4> QED BY <4>1, <4>2
      <3> QED BY <3>1, <3>2, <3>3 DEF em
    <2>3. PyCore(em, rest)
      BY <1>5, <2>2 DEF PyCore
    <2> QED BY <1>3, <2>1, <2>3 DEF PyInv, ScreenIsLive
  <1>7. CASE em.em[v].romLoaded
    <2>1. \A w \in Emulators \ {v} : ~Held(rest, w)
      BY <1>2, <1>5, <1>7, OthersNotHeld
    <2>9. PICK data \in Pictures(em, v) :
            LET env == Configured(em, v, data)
            IN IF ~parses
               THEN /\ host' = Destroy(env, v) /\ status' = rest
                    /\ UNCHANGED screen
               ELSE /\ host' = env
                    /\ status' = [rest EXCEPT ![v] = "open"]
                    /\ screen' = Screen(env, v, TRUE)
      BY <1>1, <1>7 DEF em
    <2> DEFINE env == Configured(em, v, data)
    <2>2. /\ HostInv(env) /\ Clean(env) /\ Running(env, v) /\ Framed(env, v)
          /\ OthersSame(env, em, v)
      BY <1>5, <1>7, ConfiguredEffect
    <2>3. OthersSame(env, idle, v)
      BY <1>5, <2>2 DEF OthersSame
    <2>4. CASE ~parses
      <3>1. host' = Destroy(env, v) /\ status' = rest /\ UNCHANGED screen
        BY <2>9, <2>4
      <3> HIDE DEF env
      <3>2. /\ HostInv(host') /\ Clean(host') /\ OthersSame(host', env, v)
            /\ host'.em[v] = FreshEmulator
        BY <2>2, <3>1, DestroyEffect
      <3>3. OthersSame(host', idle, v)
        BY <2>3, <3>2 DEF OthersSame
      <3>4. PyCore(host', rest)
        BY <1>2, <1>3, <2>1, <3>2, <3>3, CoreOfOne
      <3> QED BY <1>3, <3>1, <3>4 DEF PyInv, ScreenIsLive
    <2>5. CASE parses
      <3>1. /\ host' = env /\ status' = [rest EXCEPT ![v] = "open"]
            /\ screen' = Screen(env, v, TRUE)
        BY <2>9, <2>5
      <3> HIDE DEF env
      <3>2. /\ status' \in [Emulators -> {"absent", "open", "closed", "garbage"}]
            /\ \A w \in Emulators \ {v} : status'[w] = rest[w]
        BY <1>3, <3>1
      <3>3. Held(status', v) /\ Repeats(env, v)
        BY <1>3, <2>2, <3>1 DEF Held, Repeats
      <3>4. PyCore(env, status')
        BY <1>2, <2>1, <2>2, <2>3, <3>2, <3>3, CoreOfOne
      <3>5. ScreenIsLive'
        BY <2>2, <3>1 DEF ScreenIsLive, Screen, Framed
      <3> QED BY <3>1, <3>2, <3>4, <3>5 DEF PyInv
    <2> QED BY <2>4, <2>5
  <1> QED BY <1>6, <1>7

LEMMA StepKeeps ==
  ASSUME PyInv, ~Crashed(host), NEW v \in Emulators, EnvStep(v)
  PROVE PyInv'
  <1>1. PICK mask \in SUBSET Keys, data \in Pictures(host, v) :
          host' = Run([host EXCEPT !.em[v].mask = mask], v, data)
    BY DEF EnvStep
  <1> DEFINE t == [host EXCEPT !.em[v].mask = mask]
  <1>2. PyCore(host, status) /\ status[v] = "open"
    BY DEF PyInv, EnvStep
  <1>3. /\ HostInv(host) /\ Clean(host) /\ Running(host, v) /\ Held(status, v)
        /\ Repeats(host, v) /\ \A w \in Emulators \ {v} : ~Held(status, w)
    BY <1>2, OpenRuns
  <1>4. /\ HostInv(t) /\ Clean(t) /\ Running(t, v) /\ OthersSame(t, host, v)
        /\ SameOwnership(t, host) /\ t.em[v].img = host.em[v].img
    BY <1>3, MaskRunning
  <1>5. host' = Run(t, v, data)
    BY <1>1
  <1> HIDE DEF t
  <1>10. Repeats(t, v) /\ data \in Pictures(t, v)
    BY <1>3, <1>4 DEF Repeats, Framed, Pictures, SameOwnership
  <1>6. /\ HostInv(host') /\ Clean(host') /\ Running(host', v)
        /\ Framed(host', v) /\ OthersSame(host', t, v)
    BY <1>4, <1>5, <1>10, RunRunning
  <1>7. OthersSame(host', host, v)
    BY <1>4, <1>6 DEF OthersSame
  <1>8. PyCore(host', status)
    BY <1>2, <1>3, <1>6, <1>7, CoreOfOne DEF Repeats
  <1>9. ScreenIsLive'
    BY <1>6 DEF EnvStep, ScreenIsLive, Screen, Framed
  <1> QED BY <1>8, <1>9 DEF PyInv, EnvStep

LEMMA ResetKeeps ==
  ASSUME PyInv, ~Crashed(host), NEW v \in Emulators, EnvReset(v)
  PROVE PyInv'
  <1>1. PICK stateful \in BOOLEAN, out \in Outcome :
          LET t == IF stateful THEN Unserialize(host, v, out) ELSE host
          IN IF Crashed(t) THEN host' = t
             ELSE \E data \in Pictures(t, v) :
                    host' = Run([t EXCEPT !.em[v].mask = {}], v, data)
    BY DEF EnvReset
  <1> DEFINE t == IF stateful THEN Unserialize(host, v, out) ELSE host
             c == [t EXCEPT !.em[v].mask = {}]
  <1>2. PyCore(host, status) /\ status[v] = "open"
    BY DEF PyInv, EnvReset
  <1>3. /\ HostInv(host) /\ Clean(host) /\ Running(host, v) /\ Held(status, v)
        /\ Repeats(host, v) /\ \A w \in Emulators \ {v} : ~Held(status, w)
    BY <1>2, OpenRuns
  <1>4. /\ status' = status
        /\ screen' = IF Crashed(host') THEN screen ELSE Screen(host', v, TRUE)
    BY DEF EnvReset
  <1>5. CASE Crashed(t)
    <2>1. host' = t
      BY <1>1, <1>5
    <2> QED BY <1>4, <1>5, <2>1 DEF PyInv, ScreenIsLive
  <1>6. CASE ~Crashed(t)
    <2>1. PICK data \in Pictures(t, v) : host' = Run(c, v, data)
      BY <1>1, <1>6
    <2>2. /\ HostInv(t) /\ Clean(t) /\ Running(t, v) /\ OthersSame(t, host, v)
          /\ Repeats(t, v)
      BY <1>3, <1>6, UnserializeRunning, CoreAssumption DEF OthersSame, Repeats
    <2> HIDE DEF t
    <2>3. {} \in SUBSET Keys
      OBVIOUS
    <2>4. /\ HostInv(c) /\ Clean(c) /\ Running(c, v) /\ OthersSame(c, t, v)
          /\ SameOwnership(c, t) /\ c.em[v].img = t.em[v].img
      BY <2>2, <2>3, MaskRunning
    <2> HIDE DEF c
    <2>9. Repeats(c, v) /\ data \in Pictures(c, v)
      BY <2>2, <2>4 DEF Repeats, Framed, Pictures, SameOwnership
    <2>5. /\ HostInv(host') /\ Clean(host') /\ Running(host', v)
          /\ Framed(host', v) /\ OthersSame(host', c, v)
      BY <2>1, <2>4, <2>9, RunRunning
    <2>6. OthersSame(host', host, v)
      BY <2>2, <2>4, <2>5 DEF OthersSame
    <2>7. PyCore(host', status)
      BY <1>2, <1>3, <2>5, <2>6, CoreOfOne DEF Repeats
    <2>8. ScreenIsLive'
      BY <1>4, <2>5, CleanAlive DEF ScreenIsLive, Screen, Framed
    <2> QED BY <1>4, <2>7, <2>8 DEF PyInv
  <1> QED BY <1>5, <1>6

LEMMA SetStateKeeps ==
  ASSUME PyInv, ~Crashed(host), NEW v \in Emulators, RawSetState(v)
  PROVE PyInv'
  <1>1. PICK out \in Outcome : host' = Unserialize(host, v, out)
    BY DEF RawSetState
  <1>2. /\ PyCore(host, status) /\ status[v] = "open"
        /\ status' = status /\ screen' = screen
    BY DEF PyInv, RawSetState
  <1>3. /\ HostInv(host) /\ Clean(host) /\ Running(host, v) /\ Held(status, v)
        /\ Repeats(host, v) /\ \A w \in Emulators \ {v} : ~Held(status, w)
    BY <1>2, OpenRuns
  <1>4. ASSUME ~Crashed(host') PROVE PyCore(host', status)
    <2>1. /\ HostInv(host') /\ Clean(host') /\ Running(host', v)
          /\ OthersSame(host', host, v) /\ host'.em[v].core = host.em[v].core
          /\ host.em[v].core # Stella => host' = host
      BY <1>1, <1>3, <1>4, UnserializeRunning
    <2>2. Repeats(host', v)
      BY <1>3, <2>1, CoreAssumption DEF Repeats
    <2> QED BY <1>2, <1>3, <2>1, <2>2, CoreOfOne
  <1> QED BY <1>2, <1>4 DEF PyInv, ScreenIsLive

LEMMA LooksKeep ==
  ASSUME PyInv, ~Crashed(host), NEW v \in Emulators, GetScreen(v) \/ GetState(v)
  PROVE PyInv'
  <1>1. PyCore(host, status) /\ status[v] = "open"
    BY DEF PyInv, GetScreen, GetState
  <1>2. HostInv(host) /\ Running(host, v) /\ Held(status, v)
    BY <1>1, OpenRuns
  <1>3. Typed(host) /\ host.phase = "game"
    BY <1>2, PlayingGame DEF Running, OwnerInv
  <1>4. Serialize(host) = host
    BY <1>3, GameCall DEF Serialize, FrameCalls
  <1>5. CASE GetScreen(v)
    <2>1. ScreenIsLive'
      BY <1>5 DEF GetScreen, ScreenIsLive, Screen
    <2> QED BY <1>5, <2>1 DEF PyInv, GetScreen
  <1>6. CASE GetState(v)
    BY <1>4, <1>6 DEF PyInv, GetState, ScreenIsLive
  <1> QED BY <1>5, <1>6

\* close() and the last reference: the object dies, or waits in a cycle.
LEMMA EndKeeps ==
  ASSUME PyInv, ~Crashed(host), NEW v \in Emulators, Close(v) \/ Forget(v)
  PROVE PyInv'
  <1>1. PyCore(host, status) /\ screen' = screen
    BY DEF PyInv, Close, Forget
  <1>2. /\ status' \in [Emulators -> {"absent", "open", "closed", "garbage"}]
        /\ \A w \in Emulators \ {v} : status'[w] = status[w]
    BY DEF PyInv, Close, Forget
  <1>3. CASE host' = Destroy(host, v) /\ ~Held(status', v)
    <2>1. /\ HostInv(host') /\ Clean(host') /\ OthersSame(host', host, v)
          /\ host'.em[v] = FreshEmulator
      BY <1>1, <1>3, DestroyEffect DEF PyCore
    <2>2. ASSUME NEW w \in Emulators PROVE
            /\ Held(status', w) => Running(host', w) /\ Repeats(host', w)
            /\ ~Held(status', w) => host'.em[w] = FreshEmulator
      <3>1. CASE w = v
        BY <1>3, <2>1, <3>1
      <3>2. CASE w # v /\ ~Held(status, w)
        BY <1>1, <1>2, <2>1, <3>2 DEF PyCore, Held, OthersSame
      <3>3. CASE w # v /\ Held(status, w)
        <4>1. ~Held(status, v)
          BY <1>1, <3>3, HeldIsLoaded
        <4>2. host.em[v] = FreshEmulator /\ Typed(host)
          BY <1>1, <4>1 DEF PyCore, HostInv, OwnerInv
        <4>3. host' = host
          <5>1. UnloadRom(host, v) = host /\ UnloadCore(host, v) = host
            BY <4>2 DEF FreshEmulator, UnloadRom, UnloadCore
          <5>2. host' = [host EXCEPT !.em[v] = FreshEmulator]
            BY <1>3, <5>1 DEF Destroy
          <5>3. host.em = [host.em EXCEPT ![v] = FreshEmulator]
            BY <4>2 DEF Typed
          <5> QED BY <4>2, <5>2, <5>3 DEF Typed
        <4> QED BY <1>1, <1>2, <3>3, <4>3 DEF PyCore, Held
      <3> QED BY <3>1, <3>2, <3>3
    <2>3. PyCore(host', status')
      BY <2>1, <2>2 DEF PyCore
    <2> QED BY <1>1, <1>2, <2>3 DEF PyInv, ScreenIsLive
  <1>4. CASE host' = host /\ status[v] = "open" /\ status'[v] = "garbage"
    <2>1. \A w \in Emulators : Held(status', w) <=> Held(status, w)
      BY <1>2, <1>4 DEF Held
    <2>2. PyCore(host, status')
      BY <1>1, <2>1 DEF PyCore
    <2> QED BY <1>1, <1>2, <1>4, <2>2 DEF PyInv, ScreenIsLive
  <1> QED BY <1>3, <1>4 DEF PyInv, Close, Forget, Held

LEMMA NextPy == PyInv /\ [PyNext]_pyVars => PyInv'
  <1> SUFFICES ASSUME PyInv, [PyNext]_pyVars PROVE PyInv'
    OBVIOUS
  <1>1. CASE UNCHANGED pyVars
    BY <1>1 DEF PyInv, pyVars, ScreenIsLive
  <1>2. CASE PyNext
    <2>1. ~Crashed(host)
      BY <1>2 DEF PyNext
    <2>2. CASE Collect
      <3>1. PyCore(host', Swept(status, Garbage))
        BY <2>1, <2>2, CollectedEffect DEF Collect, PyInv, Garbage
      <3>2. /\ status' = Swept(status, Garbage) /\ screen' = screen
            /\ status' \in [Emulators -> {"absent", "open", "closed", "garbage"}]
        BY <2>2 DEF Collect, Swept, PyInv
      <3> QED BY <3>1, <3>2 DEF PyInv, ScreenIsLive
    <2> QED BY <1>2, <2>1, <2>2, MakeKeeps, StepKeeps, ResetKeeps,
               SetStateKeeps, LooksKeep, EndKeeps DEF PyNext
  <1> QED BY <1>1, <1>2

LEMMA PyInvariant == PySpec => []PyInv
  <1> QED BY InitPy, NextPy, PTL DEF PySpec

\* An environment that is open or lies uncollected owns the one core, with its
\* game running, and every other one has released everything.
THEOREM EnvironmentOwnsCore == PySpec => []EnvOwnsCore
  <1>1. PyInv => EnvOwnsCore
    BY DEF PyInv, PyCore, EnvOwnsCore, Holds, Held, Running, Playing
  <1> QED BY <1>1, PyInvariant, PTL

\* However environments are made, stepped, reset, closed, forgotten and
\* collected, the one misuse of the library is the dlclose under a Stella that
\* is loaded again.
THEOREM OnlyReloadMisuses == PySpec => []PythonCallsLegal
  <1>1. PyInv => PythonCallsLegal
    BY DEF PyInv, PyCore, Clean, PythonCallsLegal
  <1> QED BY <1>1, PyInvariant, PTL

\* The data of an open environment lies over the memory map of its core, or
\* over its RAM when the core has no map, in the library that is open.
THEOREM DataOverMap == PySpec => []DataSeesMap
  <1>1. PyInv => DataSeesMap
    <2> SUFFICES ASSUME PyInv, ~Crashed(host), NEW v \in Emulators,
                        status[v] = "open"
                 PROVE host.spaces[DataOf[v]] =
                         {[gen |-> host.gen,
                           view |-> IF host.em[v].core \in MapsAtLoad \cup MapsAtRun
                                    THEN "map" ELSE "ram"]}
      BY DEF DataSeesMap
    <2>1. host.spaces[DataOf[v]] = DataBlocks(host, v)
      BY DEF PyInv, PyCore, Held, Running
    <2> QED BY <2>1 DEF DataBlocks, MapBlock, RamBlock, Maps
  <1> QED BY <1>1, PyInvariant, PTL

\* Every observation is read from the library that is open: reset and step
\* draw a Stella anew, and a core that repeats frames keeps the library whose
\* first frame the constructor ran.
THEOREM FrameIsLive == PySpec => []ScreenIsLive
  <1>1. PyInv => ScreenIsLive
    BY DEF PyInv
  <1> QED BY <1>1, PyInvariant, PTL
=============================================================================
