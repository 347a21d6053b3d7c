-------------------------- MODULE RenderHooksProofs --------------------------
(***************************************************************************)
(* The installation of the hooks, and the draws their detours change, for  *)
(* any nesting.                                                            *)
(*                                                                         *)
(* The game thread changes nothing the init thread reads, so the invariant *)
(* of the installation is over the init thread's variables alone.  That of *)
(* the draws holds whatever the init thread enables meanwhile: it is over  *)
(* what each call on the stack was entered with.                           *)
(***************************************************************************)
EXTENDS RenderHooks, SequenceTheorems, TLAPS

Steps == {"find", "vtable", "prepare", "create", "slot", "enable", "done"}

\* Where the init thread can be.
PlaceInv ==
  /\ at \in 1 .. 6
  /\ step \in Steps
  /\ step = "find" => at = 1
  /\ step = "vtable" => at = 5
  /\ created \subseteq Hooks
  /\ enabled \subseteq created

\* What has been set up for the hooks created so far and for the present one.
CellsInv ==
  /\ \A h \in created : (h = Hook /\ step = "slot") \/ h \in cells
  /\ enabled \subseteq cells
  /\ \A h \in created : Prepared(h) \subseteq cells
  /\ "lit" \in created => Prepared("mesh") \subseteq cells
  /\ step \in {"create", "slot", "enable"} => Prepared(Hook) \subseteq cells
  /\ at \in {3, 4} => Prepared("mesh") \subseteq cells
  /\ step \in {"slot", "enable"} => Hook \in created

\* The hooks left behind run, or their group's error was logged.
PassedInv ==
  /\ \A i \in 1 .. 6 :
       i < at => InstallOrder[i] \in enabled \/ Group(InstallOrder[i]) \in failed
  /\ CompleteOrLogged

IInv == PlaceInv /\ CellsInv /\ PassedInv

\* The hook being installed, and its group.
LEMMA HookCases ==
  ASSUME at \in 1 .. 6
  PROVE  /\ Hook \in Hooks
         /\ Hook = InstallOrder[at]
         /\ Group(Hook) = (IF at \in {5, 6} THEN "d3d" ELSE "engine")
         /\ Hook = "lit" <=> at = 3
         /\ Hook = "mesh" <=> at = 2
<1>1. at = 1 \/ at = 2 \/ at = 3 \/ at = 4 \/ at = 5 \/ at = 6
  OBVIOUS
<1> QED
  BY <1>1 DEF Hook, Hooks, InstallOrder, Group, D3DHooks

\* Every hook has a place in the order, and the last two are Direct3D's.
LEMMA OrderCases ==
  /\ \A h \in Hooks : \E i \in 1 .. 6 : h = InstallOrder[i]
  /\ \A i \in 1 .. 6 : Group(InstallOrder[i]) = IF i < 5 THEN "engine" ELSE "d3d"
<1>1. \A i \in 1 .. 6 : i = 1 \/ i = 2 \/ i = 3 \/ i = 4 \/ i = 5 \/ i = 6
  OBVIOUS
<1>2. DOMAIN InstallOrder = 1 .. 6
  BY DEF InstallOrder
<1> QED
  BY <1>1, <1>2 DEF Hooks, InstallOrder, Group, D3DHooks

\* Where install_hook goes from each of its three steps.
LEMMA StepOverCases ==
  ASSUME StepOver, at \in 1 .. 6
  PROVE  /\ step = "create" => step' = "slot" /\ at' = at
         /\ step = "slot" => step' = "enable" /\ at' = at
         /\ step = "enable" =>
              \/ at = 6 /\ at' = 6 /\ step' = "done"
              \/ at = 4 /\ at' = 5 /\ step' = "vtable"
              \/ at \notin {4, 6} /\ at' = at + 1 /\ step' = "prepare"
<1>1. /\ HookProgram[1] = "create" /\ HookProgram[2] = "slot" /\ HookProgram[3] = "enable"
      /\ Len(InstallOrder) = 6
  BY DEF HookProgram, InstallOrder
<1>2. \A i \in 1 .. 2 : i = 1 \/ i = 2
  OBVIOUS
<1> QED
  BY <1>1, <1>2 DEF StepOver

\* An error ends the group it is of.
LEMMA GiveUpCases ==
  ASSUME IInv, NEW g \in {"engine", "d3d"}, GiveUp(g), g = "d3d" => at \in {5, 6},
         UNCHANGED <<cells, created>>, enabled \subseteq enabled', enabled' \subseteq created,
         step # "slot"
  PROVE  IInv'
<1>1. /\ failed' = failed \cup {g}
      /\ g = "engine" => at' = 5 /\ step' = "vtable"
      /\ g = "d3d" => at' = at /\ step' = "done"
  BY DEF GiveUp
<1>2. PlaceInv'
  BY <1>1 DEF IInv, PlaceInv, Steps
<1>3. CellsInv'
  BY <1>1 DEF IInv, CellsInv
<1>4. \A i \in 1 .. 6 :
        i < at' => InstallOrder[i] \in enabled' \/ Group(InstallOrder[i]) \in failed'
  BY <1>1, OrderCases DEF IInv, PassedInv, PlaceInv
<1>5. CompleteOrLogged'
  <2> SUFFICES ASSUME step' = "done", NEW h \in Hooks
               PROVE  h \in enabled' \/ Group(h) \in failed'
    BY DEF CompleteOrLogged
  <2>1. g = "d3d" /\ at \in {5, 6} /\ "d3d" \in failed'
    BY <1>1
  <2>2. PICK i \in 1 .. 6 : h = InstallOrder[i]
    BY OrderCases
  <2> QED
    BY <1>1, <1>4, <2>1, <2>2, OrderCases
<1> QED
  BY <1>2, <1>3, <1>4, <1>5 DEF IInv, PassedInv

LEMMA InitInv == Init => IInv
BY DEF Init, IInv, PlaceInv, CellsInv, PassedInv, CompleteOrLogged, Steps

LEMMA NextInv == IInv /\ [Next]_vars => IInv'
<1> SUFFICES ASSUME IInv, [Next]_vars PROVE IInv'
  OBVIOUS
<1> USE DEF IInv
<1>0. at \in 1 .. 6
  BY DEF PlaceInv
<1>1. CASE UNCHANGED initVars
  BY <1>1 DEF initVars, PlaceInv, CellsInv, PassedInv, CompleteOrLogged, Hook
<1>2. CASE FindHooks
  <2>1. CASE step' = "prepare" /\ UNCHANGED <<at, failed>>
    <3>1. step = "find" /\ at = 1 /\ at' = 1 /\ UNCHANGED <<cells, created, enabled, failed>>
      BY <1>2, <2>1 DEF FindHooks, PlaceInv
    <3> QED
      BY <2>1, <3>1 DEF PlaceInv, CellsInv, PassedInv, CompleteOrLogged, Steps
  <2>2. CASE GiveUp("engine")
    BY <1>2, <2>2, GiveUpCases DEF FindHooks, PlaceInv
  <2> QED
    BY <1>2, <2>1, <2>2 DEF FindHooks
<1>3. CASE ReadVtables
  <2>1. CASE step' = "prepare" /\ UNCHANGED <<at, failed>>
    <3>1. step = "vtable" /\ at = 5 /\ at' = 5 /\ UNCHANGED <<cells, created, enabled, failed>>
      BY <1>3, <2>1 DEF ReadVtables, PlaceInv
    <3> QED
      BY <2>1, <3>1 DEF PlaceInv, CellsInv, PassedInv, CompleteOrLogged, Steps
  <2>2. CASE GiveUp("d3d")
    BY <1>3, <2>2, GiveUpCases DEF ReadVtables, PlaceInv
  <2> QED
    BY <1>3, <2>1, <2>2 DEF ReadVtables
<1>4. CASE Prepare
  <2>1. /\ step = "prepare" /\ step' = "create" /\ at' = at
        /\ cells' = cells \cup Prepared(Hook)
        /\ UNCHANGED <<created, enabled, failed>>
    BY <1>4 DEF Prepare, HookProgram
  <2> QED
    BY <2>1 DEF PlaceInv, CellsInv, PassedInv, CompleteOrLogged, Steps, Hook
<1>5. CASE CreateHook
  <2>1. CASE created' = created \cup {Hook} /\ StepOver /\ UNCHANGED failed
    <3>1. /\ step = "create" /\ step' = "slot" /\ at' = at /\ Hook' = Hook
          /\ UNCHANGED <<cells, enabled, failed>>
      BY <1>0, <1>5, <2>1, StepOverCases DEF CreateHook, Hook
    <3>2. Hook = "lit" => Prepared("mesh") \subseteq cells
      BY <1>0, HookCases DEF CellsInv
    <3> QED
      BY <1>0, <2>1, <3>1, <3>2, HookCases
      DEF PlaceInv, CellsInv, PassedInv, CompleteOrLogged, Steps
  <2>2. CASE GiveUp(Group(Hook)) /\ UNCHANGED created
    BY <1>0, <1>5, <2>2, HookCases, GiveUpCases DEF CreateHook, PlaceInv
  <2> QED
    BY <1>5, <2>1, <2>2 DEF CreateHook
<1>6. CASE SetSlot
  <2>1. /\ step = "slot" /\ step' = "enable" /\ at' = at /\ Hook' = Hook
        /\ cells' = cells \cup {Hook}
        /\ UNCHANGED <<created, enabled, failed>>
    BY <1>0, <1>6, StepOverCases DEF SetSlot, Hook
  <2> QED
    BY <2>1 DEF PlaceInv, CellsInv, PassedInv, CompleteOrLogged, Steps
<1>7. CASE EnableHooks
  <2>0. step = "enable" /\ UNCHANGED <<cells, created>>
    BY <1>7 DEF EnableHooks
  <2>1. CASE enabled' = created /\ StepOver /\ UNCHANGED failed
    <3>1. /\ \/ at = 6 /\ at' = 6 /\ step' = "done"
             \/ at = 4 /\ at' = 5 /\ step' = "vtable"
             \/ at \notin {4, 6} /\ at' = at + 1 /\ step' = "prepare"
          /\ InstallOrder[at] \in created
      BY <1>0, <2>0, <2>1, StepOverCases, HookCases DEF CellsInv
    <3>2. PlaceInv'
      BY <2>0, <2>1, <3>1 DEF PlaceInv, Steps
    <3>3. at = 2 => Prepared("mesh") \subseteq cells
      BY <1>0, <2>0, HookCases DEF CellsInv
    <3>4. CellsInv'
      BY <1>0, <2>0, <2>1, <3>1, <3>3 DEF CellsInv
    <3>5. \A i \in 1 .. 6 :
            i <= at => InstallOrder[i] \in enabled' \/ Group(InstallOrder[i]) \in failed'
      BY <1>0, <2>1, <3>1 DEF PassedInv, PlaceInv
    <3>6. \A i \in 1 .. 6 :
            i < at' => InstallOrder[i] \in enabled' \/ Group(InstallOrder[i]) \in failed'
      BY <1>0, <3>1, <3>5
    <3>7. CompleteOrLogged'
      BY <1>0, <3>1, <3>5, OrderCases DEF CompleteOrLogged
    <3> QED
      BY <3>2, <3>4, <3>6, <3>7 DEF PassedInv
  <2>2. CASE /\ \E i \in 1 .. at :
                  /\ InstallOrder[i] \in created \ enabled
                  /\ enabled' = enabled \cup (created \cap {InstallOrder[j] : j \in 1 .. i - 1})
             /\ GiveUp(Group(Hook))
    <3>1. enabled \subseteq enabled' /\ enabled' \subseteq created
      BY <2>2 DEF PlaceInv
    <3> QED
      BY <1>0, <2>0, <2>2, <3>1, HookCases, GiveUpCases
  <2> QED
    BY <1>7, <2>1, <2>2 DEF EnableHooks
<1>8. CASE GameThread
  BY <1>1, <1>8
  DEF GameThread, BuildView, EnterPrimitive, LeavePrimitive, EnterDraw, LeaveDraw, EnterMesh,
      LeaveMesh
<1>9. CASE UNCHANGED vars
  BY <1>1, <1>9 DEF vars
<1> QED
  BY <1>2, <1>3, <1>4, <1>5, <1>6, <1>7, <1>8, <1>9 DEF Next, InitThread

-----------------------------------------------------------------------------

\* The invariant of the installation: created hooks have their cells, but for
\* the one whose slot is being set, and hooks passed run or were given up.
THEOREM Inductive == Spec => []IInv
BY InitInv, NextInv, PTL DEF Spec

\* No detour ever runs without what it unwraps, whichever create or enable
\* fails and whichever later install enables it (hook_util.rs 54-60).
THEOREM DetoursAlwaysFindOriginals == Spec => []DetoursFindOriginals
<1>1. IInv => DetoursFindOriginals
  <2> SUFFICES ASSUME IInv, NEW h \in enabled PROVE Unwrapped(h) \subseteq cells
    BY DEF DetoursFindOriginals
  <2>1. h \in created /\ h \in Hooks
    BY DEF IInv, PlaceInv
  <2>2. h \in cells /\ Prepared(h) \subseteq cells
    BY <2>1 DEF IInv, CellsInv
  <2> QED
    BY <2>1, <2>2 DEF IInv, CellsInv, Unwrapped
<1> QED
  BY Inductive, <1>1, PTL

\* Both groups are tried to the end and every hook that does not run is of a
\* group with a logged error (lib.rs 259-278).
THEOREM AlwaysCompleteOrLogged == Spec => []CompleteOrLogged
<1>1. IInv => CompleteOrLogged
  BY DEF IInv, PassedInv
<1> QED
  BY Inductive, <1>1, PTL

-----------------------------------------------------------------------------
(* The draws                                                               *)

\* What the renderer is while call c is the innermost.
Entered(c) ==
  IF c.call = "primitive" /\ c.detoured THEN [c.found EXCEPT !.reticleDraw = c.crosshair]
  ELSE IF c.call = "draw" /\ c.effect = "shift" THEN [c.found EXCEPT !.viewports = "shifted"]
  ELSE IF c.effect = "steady" THEN [c.found EXCEPT !.view = c.scene, !.projection = c.scene]
  ELSE c.found

\* What the i-th call found.
Before(calls, i) == IF i = 1 THEN Untouched ELSE Entered(calls[i - 1])

\* The innermost detoured primitive around the i-th call is a crosshair.
InCrosshair(calls, i) ==
  LET hooked == {k \in 1 .. i - 1 : calls[k].call = "primitive" /\ calls[k].detoured}
  IN  \E k \in hooked : calls[k].crosshair /\ \A j \in hooked : j <= k

\* What a call does, by its kind.
CallInv(c) ==
  /\ c.call = "primitive" => c.effect = "none"
  /\ c.call \in {"mesh", "lit"} => c.effect \in {"none", "steady"}
  /\ c.call = "draw" => /\ c.effect \in {"none", "drop", "shift"}
                        /\ c.effect # "none" => c.found.reticleDraw /\ c.detoured

\* Every call found what the calls around it make of the renderer.
Nested(calls, now) ==
  /\ \A i \in 1 .. Len(calls) :
       /\ CallInv(calls[i])
       /\ calls[i].found = Before(calls, i)
       /\ i < Len(calls) => calls[i].call # "draw"
       /\ Before(calls, i).viewports = "game"
  /\ \A i \in 1 .. Len(calls) + 1 :
       /\ Before(calls, i) \in Renderers
       /\ Before(calls, i).reticleDraw = InCrosshair(calls, i)
  /\ now = Before(calls, Len(calls) + 1)

GameTypes ==
  /\ cleanScene \in Scenes \cup {None}
  /\ reticle \in {"inactive", "hidden", "position"}
  /\ renderer \in Renderers
  /\ stack \in Seq(Calls)

GameInv == GameTypes /\ Nested(stack, renderer)

LEMMA Pushed ==
  ASSUME NEW calls \in Seq(Calls), NEW c \in Calls
  PROVE  /\ Append(calls, c) \in Seq(Calls)
         /\ Len(calls) \in Nat
         /\ Len(Append(calls, c)) = Len(calls) + 1
         /\ \A i \in 1 .. Len(calls) : Append(calls, c)[i] = calls[i]
         /\ Append(calls, c)[Len(calls) + 1] = c
OBVIOUS

LEMMA Popped ==
  ASSUME NEW calls \in Seq(Calls), calls # <<>>
  PROVE  /\ SubSeq(calls, 1, Len(calls) - 1) \in Seq(Calls)
         /\ Len(calls) \in Nat \ {0}
         /\ Len(SubSeq(calls, 1, Len(calls) - 1)) = Len(calls) - 1
         /\ \A i \in 1 .. Len(calls) - 1 : SubSeq(calls, 1, Len(calls) - 1)[i] = calls[i]
         /\ calls[Len(calls)] \in Calls
<1>1. Len(calls) \in Nat \ {0} /\ \A i \in 1 .. Len(calls) : calls[i] \in Calls
  BY EmptySeq
<1>2. Len(calls) - 1 \in Int /\ \A i \in 1 .. Len(calls) - 1 : calls[i] \in Calls
  BY <1>1
<1>3. /\ SubSeq(calls, 1, Len(calls) - 1) \in Seq(Calls)
      /\ Len(SubSeq(calls, 1, Len(calls) - 1)) =
           IF 1 <= Len(calls) - 1 THEN Len(calls) - 1 - 1 + 1 ELSE 0
      /\ \A i \in 1 .. Len(calls) - 1 - 1 + 1 :
           SubSeq(calls, 1, Len(calls) - 1)[i] = calls[1 + i - 1]
  BY <1>2, SubSeqProperties
<1> DEFINE n == Len(calls)
<1>4. n - 1 - 1 + 1 = n - 1 /\ (1 <= n - 1 \/ n - 1 = 0)
  BY <1>1
<1>5. \A i \in 1 .. n - 1 : 1 + i - 1 = i
  BY <1>1
<1>6. n \in 1 .. n
  BY <1>1
<1>7. Len(SubSeq(calls, 1, n - 1)) = n - 1
  BY <1>3, <1>4
<1>8. \A i \in 1 .. n - 1 : SubSeq(calls, 1, n - 1)[i] = calls[i]
  BY <1>3, <1>4, <1>5
<1> QED
  BY <1>1, <1>3, <1>6, <1>7, <1>8

\* Calls that agree below i found the same there.
LEMMA SameBelow ==
  ASSUME NEW a, NEW b, NEW i \in Nat \ {0}, \A k \in 1 .. i - 1 : a[k] = b[k]
  PROVE  Before(a, i) = Before(b, i) /\ InCrosshair(a, i) = InCrosshair(b, i)
<1>1. Before(a, i) = Before(b, i)
  BY DEF Before
<1>2. {k \in 1 .. i - 1 : a[k].call = "primitive" /\ a[k].detoured} =
        {k \in 1 .. i - 1 : b[k].call = "primitive" /\ b[k].detoured}
  OBVIOUS
<1>3. InCrosshair(a, i) <=> InCrosshair(b, i)
  BY <1>2 DEF InCrosshair
<1>4. InCrosshair(a, i) \in BOOLEAN /\ InCrosshair(b, i) \in BOOLEAN
  BY DEF InCrosshair
<1> QED
  BY <1>1, <1>3, <1>4

\* A call keeps its own crosshair in mind, or the one around it.
LEMMA CrosshairAfter ==
  ASSUME NEW calls, NEW n \in Nat, NEW c, c = calls[n + 1], c.crosshair \in BOOLEAN
  PROVE  InCrosshair(calls, n + 2) =
           IF c.call = "primitive" /\ c.detoured THEN c.crosshair ELSE InCrosshair(calls, n + 1)
<1> DEFINE inner == {k \in 1 .. n + 1 : calls[k].call = "primitive" /\ calls[k].detoured}
           outer == {k \in 1 .. n : calls[k].call = "primitive" /\ calls[k].detoured}
<1>1. /\ InCrosshair(calls, n + 2) <=> \E k \in inner : calls[k].crosshair /\ \A j \in inner : j <= k
      /\ InCrosshair(calls, n + 1) <=> \E k \in outer : calls[k].crosshair /\ \A j \in outer : j <= k
      /\ InCrosshair(calls, n + 2) \in BOOLEAN /\ InCrosshair(calls, n + 1) \in BOOLEAN
  <2>1. n + 2 - 1 = n + 1 /\ n + 1 - 1 = n
    OBVIOUS
  <2> QED
    BY <2>1 DEF InCrosshair
<1>2. CASE c.call = "primitive" /\ c.detoured
  <2>1. n + 1 \in inner /\ \A k \in inner : k \in Nat /\ k <= n + 1
    BY <1>2
  <2>2. InCrosshair(calls, n + 2) <=> c.crosshair
    BY <1>1, <2>1
  <2> QED
    BY <1>1, <1>2, <2>2
<1>3. CASE ~(c.call = "primitive" /\ c.detoured)
  <2>1. inner = outer
    BY <1>3
  <2>2. InCrosshair(calls, n + 2) <=> InCrosshair(calls, n + 1)
    BY <1>1, <2>1
  <2> QED
    BY <1>1, <1>3, <2>2
<1> QED
  BY <1>2, <1>3

LEMMA EnteredType ==
  ASSUME NEW c \in Calls
  PROVE  /\ Entered(c) \in Renderers
         /\ Entered(c).reticleDraw =
              IF c.call = "primitive" /\ c.detoured THEN c.crosshair ELSE c.found.reticleDraw
         /\ Entered(c).viewports =
              IF c.call = "draw" /\ c.effect = "shift" THEN "shifted" ELSE c.found.viewports
<1>1. c.found \in Renderers /\ c.crosshair \in BOOLEAN
  BY DEF Calls
<1>2. CASE c.call = "primitive" /\ c.detoured
  <2>1. Entered(c) = [c.found EXCEPT !.reticleDraw = c.crosshair]
    BY <1>2 DEF Entered
  <2> QED
    BY <1>1, <1>2, <2>1 DEF Renderers
<1>3. CASE c.call = "draw" /\ c.effect = "shift"
  <2>1. Entered(c) = [c.found EXCEPT !.viewports = "shifted"]
    BY <1>3 DEF Entered
  <2> QED
    BY <1>1, <1>3, <2>1 DEF Renderers
<1>4. CASE ~(c.call = "primitive" /\ c.detoured) /\ ~(c.call = "draw" /\ c.effect = "shift")
  <2>0. c.scene \in Scenes \cup {None}
    BY DEF Calls
  <2>1. Entered(c) = IF c.effect = "steady"
                       THEN [c.found EXCEPT !.view = c.scene, !.projection = c.scene] ELSE c.found
    BY <1>4 DEF Entered
  <2> QED
    BY <1>1, <1>4, <2>0, <2>1 DEF Renderers
<1> QED
  BY <1>2, <1>3, <1>4

\* A call that finds the renderer as it is and is no draw inside a draw.
LEMMA PushNested ==
  ASSUME NEW calls \in Seq(Calls), NEW now, Nested(calls, now), NEW c \in Calls, CallInv(c),
         c.found = now, calls # <<>> => calls[Len(calls)].call # "draw"
  PROVE  Nested(Append(calls, c), Entered(c))
<1> DEFINE n == Len(calls)
           b == Append(calls, c)
<1>1. /\ n \in Nat /\ Len(b) = n + 1 /\ b[n + 1] = c
      /\ \A i \in 1 .. n : b[i] = calls[i]
  BY Pushed
<1>2. ASSUME NEW i \in 1 .. n + 1
      PROVE  Before(b, i) = Before(calls, i) /\ InCrosshair(b, i) = InCrosshair(calls, i)
  <2>1. i \in Nat \ {0} /\ \A k \in 1 .. i - 1 : b[k] = calls[k]
    BY <1>1
  <2> QED
    BY <2>1, SameBelow
<1>3. now = Before(calls, n + 1) /\ now \in Renderers /\ now.reticleDraw = InCrosshair(calls, n + 1)
  BY <1>1 DEF Nested
<1>4. now.viewports = "game"
  <2>1. CASE n = 0
    BY <1>3, <2>1 DEF Before, Untouched
  <2>2. CASE n # 0
    <3>1. n \in 1 .. n /\ n + 1 # 1 /\ n + 1 - 1 = n /\ calls # <<>> /\ calls[n] \in Calls
      BY <1>1, <2>2
    <3>2. calls[n].call # "draw" /\ now = Entered(calls[n])
      BY <1>3, <3>1 DEF Before
    <3>3. calls[n].found.viewports = "game"
      BY <3>1 DEF Nested
    <3> QED
      BY <3>1, <3>2, <3>3, EnteredType
  <2> QED
    BY <2>1, <2>2
<1>5. Before(b, n + 2) = Entered(c)
  <2>1. n + 2 # 1 /\ n + 2 - 1 = n + 1
    BY <1>1
  <2> QED
    BY <1>1, <2>1 DEF Before
<1>6. InCrosshair(b, n + 2) =
        IF c.call = "primitive" /\ c.detoured THEN c.crosshair ELSE InCrosshair(calls, n + 1)
  <2>1. c.crosshair \in BOOLEAN
    BY DEF Calls
  <2>2. n + 1 \in 1 .. n + 1
    BY <1>1
  <2>3. InCrosshair(b, n + 2) =
          IF c.call = "primitive" /\ c.detoured THEN c.crosshair ELSE InCrosshair(b, n + 1)
    BY <1>1, <2>1, CrosshairAfter
  <2> QED
    BY <1>2, <2>2, <2>3
<1>7. Entered(c) \in Renderers /\ Entered(c).reticleDraw = InCrosshair(b, n + 2)
  BY <1>3, <1>6, EnteredType
<1>8. ASSUME NEW i \in 1 .. n + 1
      PROVE  /\ CallInv(b[i])
             /\ b[i].found = Before(b, i)
             /\ i < n + 1 => b[i].call # "draw"
             /\ Before(b, i).viewports = "game"
  <2>1. CASE i = n + 1
    BY <1>1, <1>2, <1>3, <1>4, <2>1
  <2>2. CASE i # n + 1
    <3>1. i \in 1 .. n /\ b[i] = calls[i]
      BY <1>1, <2>2
    <3>2. CallInv(calls[i]) /\ calls[i].found = Before(calls, i) /\ Before(calls, i).viewports = "game"
      BY <3>1 DEF Nested
    <3>3. calls[i].call # "draw"
      <4>1. CASE i < n
        BY <3>1, <4>1 DEF Nested
      <4>2. CASE i = n
        BY <1>1, <3>1, <4>2
      <4> QED
        BY <1>1, <3>1, <4>1, <4>2
    <3> QED
      BY <1>2, <3>1, <3>2, <3>3
  <2> QED
    BY <2>1, <2>2
<1>9. ASSUME NEW i \in 1 .. n + 2
      PROVE  Before(b, i) \in Renderers /\ Before(b, i).reticleDraw = InCrosshair(b, i)
  <2>1. CASE i = n + 2
    BY <1>5, <1>7, <2>1
  <2>2. CASE i # n + 2
    <3>1. i \in 1 .. n + 1
      BY <1>1, <2>2
    <3> QED
      BY <1>2, <3>1 DEF Nested
  <2> QED
    BY <2>1, <2>2
<1>10. Len(b) + 1 = n + 2
  BY <1>1
<1> HIDE DEF b, n
<1>11. Nested(b, Entered(c))
  BY <1>1, <1>5, <1>8, <1>9, <1>10 DEF Nested
<1> QED
  BY <1>11 DEF b

\* The innermost call gone, and the renderer back to what it found.
LEMMA PopNested ==
  ASSUME NEW calls \in Seq(Calls), NEW now, Nested(calls, now), calls # <<>>
  PROVE  Nested(SubSeq(calls, 1, Len(calls) - 1), calls[Len(calls)].found)
<1> DEFINE n == Len(calls)
           b == SubSeq(calls, 1, n - 1)
<1>1. /\ n \in Nat \ {0} /\ Len(b) = n - 1
      /\ \A i \in 1 .. n - 1 : b[i] = calls[i]
  BY Popped
<1>2. ASSUME NEW i \in 1 .. n
      PROVE  Before(b, i) = Before(calls, i) /\ InCrosshair(b, i) = InCrosshair(calls, i)
  <2>1. i \in Nat \ {0} /\ \A k \in 1 .. i - 1 : b[k] = calls[k]
    BY <1>1
  <2> QED
    BY <2>1, SameBelow
<1>3. calls[n].found = Before(b, n)
  <2>1. n \in 1 .. n
    BY <1>1
  <2> QED
    BY <1>2, <2>1 DEF Nested
<1>4. ASSUME NEW i \in 1 .. n - 1
      PROVE  /\ CallInv(b[i])
             /\ b[i].found = Before(b, i)
             /\ i < n - 1 => b[i].call # "draw"
             /\ Before(b, i).viewports = "game"
  <2>1. i \in 1 .. n /\ i < n /\ b[i] = calls[i]
    BY <1>1
  <2> QED
    BY <1>2, <2>1 DEF Nested
<1>5. ASSUME NEW i \in 1 .. n
      PROVE  Before(b, i) \in Renderers /\ Before(b, i).reticleDraw = InCrosshair(b, i)
  <2>1. i \in 1 .. n + 1
    BY <1>1
  <2> QED
    BY <1>2, <2>1 DEF Nested
<1>6. Len(b) + 1 = n
  BY <1>1
<1> HIDE DEF b
<1>7. Nested(b, calls[n].found)
  BY <1>1, <1>3, <1>4, <1>5, <1>6 DEF Nested
<1> QED
  BY <1>7 DEF b

LEMMA PushStep ==
  ASSUME GameInv, NEW call \in {"mesh", "lit", "primitive", "draw"}, NEW crosshair \in BOOLEAN,
         NEW scene \in Scenes \cup {None}, NEW effect \in {"none", "drop", "shift", "steady"},
         Push(call, scene, crosshair, effect),
         stack # <<>> => Top.call # "draw",
         NEW c, c = [call |-> call, detoured |-> call \in enabled, scene |-> scene,
                     crosshair |-> crosshair, effect |-> effect, found |-> renderer],
         CallInv(c), renderer' = Entered(c), UNCHANGED <<cleanScene, reticle>>
  PROVE  GameInv'
<1>1. c \in Calls /\ c.found = renderer /\ stack' = Append(stack, c)
  <2>1. renderer \in Renderers
    BY DEF GameInv, GameTypes
  <2> QED
    BY <2>1 DEF Push, Calls
<1>2. Nested(stack', renderer')
  <2>1. stack \in Seq(Calls) /\ Nested(stack, renderer)
    BY DEF GameInv, GameTypes
  <2> QED
    BY <1>1, <2>1, PushNested DEF Top
<1>3. stack' \in Seq(Calls) /\ renderer' \in Renderers
  BY <1>1, EnteredType DEF GameInv, GameTypes
<1> QED
  BY <1>2, <1>3 DEF GameInv, GameTypes

LEMMA PopStep ==
  ASSUME GameInv, stack # <<>>, Pop, renderer' = Top.found, UNCHANGED <<cleanScene, reticle>>
  PROVE  GameInv'
<1>1. stack \in Seq(Calls) /\ Nested(stack, renderer)
  BY DEF GameInv, GameTypes
<1>2. Nested(stack', renderer')
  BY <1>1, PopNested DEF Pop, Top
<1>3. stack' \in Seq(Calls) /\ Top \in Calls
  BY <1>1, Popped DEF Pop, Top
<1>4. renderer' \in Renderers
  BY <1>3 DEF Calls
<1> QED
  BY <1>2, <1>3, <1>4 DEF GameInv, GameTypes

\* The innermost call, and the renderer it made of the one it found.
LEMMA TopCall ==
  ASSUME GameInv, stack # <<>>
  PROVE  Top \in Calls /\ CallInv(Top) /\ renderer = Entered(Top) /\ Top.found \in Renderers
<1>1. stack \in Seq(Calls) /\ Nested(stack, renderer)
  BY DEF GameInv, GameTypes
<1>2. Len(stack) \in Nat \ {0} /\ Top \in Calls
  BY <1>1, Popped DEF Top
<1>3. /\ Len(stack) \in 1 .. Len(stack) /\ Len(stack) + 1 # 1
      /\ Len(stack) + 1 - 1 = Len(stack)
  BY <1>2
<1>4. CallInv(Top)
  BY <1>1, <1>3 DEF Nested, Top
<1>5. renderer = Entered(Top)
  BY <1>1, <1>3 DEF Nested, Before, Top
<1> QED
  BY <1>2, <1>4, <1>5 DEF Calls

\* What a call that returns does: each of the three kinds takes back what it
\* did on entry, if its detour ran at all.
LEMMA LeaveRestores ==
  ASSUME GameInv, LeavePrimitive \/ LeaveDraw \/ LeaveMesh
  PROVE  stack # <<>> /\ Pop /\ renderer' = Top.found /\ UNCHANGED <<cleanScene, reticle>>
<1>1. stack # <<>> /\ Pop /\ UNCHANGED <<cleanScene, reticle>>
  BY DEF LeavePrimitive, LeaveDraw, LeaveMesh
<1>2. Top.found \in Renderers /\ CallInv(Top) /\ renderer = Entered(Top)
  BY <1>1, TopCall
<1>3. CASE LeavePrimitive
  <2>1. Top.call = "primitive" /\ Top.effect = "none"
    BY <1>2, <1>3 DEF LeavePrimitive, CallInv
  <2>2. renderer' = Top.found
    BY <1>2, <1>3, <2>1 DEF LeavePrimitive, Entered, Renderers
  <2> QED
    BY <1>1, <2>2
<1>4. CASE LeaveDraw
  <2>1. Top.call = "draw" /\ Top.effect \in {"none", "drop", "shift"}
    BY <1>2, <1>4 DEF LeaveDraw, CallInv
  <2>2. renderer' = Top.found
    BY <1>2, <1>4, <2>1 DEF LeaveDraw, Entered, Renderers
  <2> QED
    BY <1>1, <2>2
<1>5. CASE LeaveMesh
  <2>1. Top.call \in {"mesh", "lit"} /\ Top.effect \in {"none", "steady"}
    BY <1>2, <1>5 DEF LeaveMesh, CallInv
  <2>2. renderer' = Top.found
    BY <1>2, <1>5, <2>1 DEF LeaveMesh, Entered, Renderers
  <2> QED
    BY <1>1, <2>2
<1> QED
  BY <1>3, <1>4, <1>5

\* What entering a mesh does: an arrow of the kept scene gets its matrices.
LEMMA MeshEntered ==
  ASSUME NEW call, NEW scene \in Scenes, NEW arrow \in BOOLEAN, EnterMesh(call, scene, arrow)
  PROVE  IF call \in enabled /\ arrow /\ cleanScene = scene
           THEN /\ Push(call, scene, FALSE, "steady")
                /\ renderer' = [renderer EXCEPT !.view = scene, !.projection = scene]
           ELSE Push(call, scene, FALSE, "none") /\ renderer' = renderer
<1>1. scene # None
  BY NoneAssumption
<1> QED
  BY <1>1 DEF EnterMesh, CleanMatrices

LEMMA GameInvInit == Init => GameInv
<1> SUFFICES ASSUME Init PROVE GameInv
  OBVIOUS
<1>1. stack = <<>> /\ Len(stack) = 0 /\ renderer = Untouched /\ Untouched \in Renderers
  BY DEF Init, Untouched, Renderers
<1>2. Before(stack, 1) = Untouched /\ InCrosshair(stack, 1) = FALSE /\ Untouched.reticleDraw = FALSE
  <2>1. \A k \in 1 .. 1 - 1 : FALSE
    OBVIOUS
  <2> QED
    BY <2>1 DEF Before, InCrosshair, Untouched
<1>3. (\A i \in 1 .. 0 : FALSE) /\ (\A i \in 1 .. 0 + 1 : i = 1) /\ 0 + 1 = 1
  OBVIOUS
<1>4. Nested(stack, renderer)
  <2>1. Before(stack, 1) \in Renderers /\ Before(stack, 1).reticleDraw = InCrosshair(stack, 1)
    BY <1>1, <1>2
  <2>2. renderer = Before(stack, Len(stack) + 1)
    BY <1>1, <1>2, <1>3
  <2>3. \A i \in 1 .. Len(stack) + 1 :
          Before(stack, i) \in Renderers /\ Before(stack, i).reticleDraw = InCrosshair(stack, i)
    BY <1>1, <1>3, <2>1
  <2>4. \A i \in 1 .. Len(stack) : FALSE
    BY <1>1, <1>3
  <2> QED
    BY <2>2, <2>3, <2>4 DEF Nested
<1>5. stack \in Seq(Calls)
  BY <1>1, EmptySeq
<1> QED
  BY <1>1, <1>4, <1>5 DEF Init, GameInv, GameTypes

LEMMA GameInvNext == GameInv /\ [Next]_vars => GameInv'
<1> SUFFICES ASSUME GameInv, [Next]_vars PROVE GameInv'
  OBVIOUS
<1>0. GameTypes
  BY DEF GameInv
<1>1. CASE UNCHANGED gameVars
  BY <1>1 DEF gameVars, GameInv, GameTypes
<1>2. CASE BuildView
  BY <1>2 DEF BuildView, GameInv, GameTypes
<1>3. ASSUME NEW crosshair \in BOOLEAN, EnterPrimitive(crosshair) PROVE GameInv'
  <2> DEFINE c == [call |-> "primitive", detoured |-> "primitive" \in enabled, scene |-> None,
                   crosshair |-> crosshair, effect |-> "none", found |-> renderer]
  <2>1. renderer' = Entered(c)
    BY <1>3 DEF EnterPrimitive, Entered
  <2>2. CallInv(c)
    BY DEF CallInv
  <2>3. /\ Push("primitive", None, crosshair, "none") /\ UNCHANGED <<cleanScene, reticle>>
        /\ stack # <<>> => Top.call # "draw"
    BY <1>3 DEF EnterPrimitive, CanCall
  <2> HIDE DEF c
  <2>4. c = [call |-> "primitive", detoured |-> "primitive" \in enabled, scene |-> None,
             crosshair |-> crosshair, effect |-> "none", found |-> renderer]
    BY DEF c
  <2> QED
    BY <1>3, <2>1, <2>2, <2>3, <2>4, PushStep
<1>4. CASE LeavePrimitive
  BY <1>4, LeaveRestores, PopStep
<1>5. CASE EnterDraw
  <2>1. PICK state \in {reticle, "inactive"} :
          /\ Push("draw", None, FALSE, Effect[state])
          /\ renderer' = [renderer EXCEPT !.viewports =
                            IF Effect[state] = "shift" THEN "shifted" ELSE @]
          /\ state # "inactive" => "draw" \in enabled /\ renderer.reticleDraw
    BY <1>5 DEF EnterDraw
  <2> DEFINE c == [call |-> "draw", detoured |-> "draw" \in enabled, scene |-> None,
                   crosshair |-> FALSE, effect |-> Effect[state], found |-> renderer]
  <2>2. /\ Effect[state] \in {"none", "drop", "shift"}
        /\ Effect[state] # "none" => state # "inactive"
    BY <1>0 DEF Effect, GameTypes
  <2>3. renderer' = Entered(c)
    BY <1>0, <2>1, <2>2 DEF Entered, GameTypes, Renderers
  <2>4. CallInv(c)
    BY <2>1, <2>2 DEF CallInv
  <2>5. /\ UNCHANGED <<cleanScene, reticle>>
        /\ stack # <<>> => Top.call # "draw"
    BY <1>5 DEF EnterDraw
  <2> HIDE DEF c
  <2>6. c = [call |-> "draw", detoured |-> "draw" \in enabled, scene |-> None,
             crosshair |-> FALSE, effect |-> Effect[state], found |-> renderer]
    BY DEF c
  <2> QED
    BY <2>1, <2>2, <2>3, <2>4, <2>5, <2>6, PushStep
<1>6. CASE LeaveDraw
  BY <1>6, LeaveRestores, PopStep
<1>7. ASSUME NEW call \in {"mesh", "lit"}, NEW scene \in Scenes, NEW arrow \in BOOLEAN,
             EnterMesh(call, scene, arrow)
      PROVE  GameInv'
  <2> DEFINE effect == IF call \in enabled /\ arrow /\ cleanScene = scene THEN "steady" ELSE "none"
             c == [call |-> call, detoured |-> call \in enabled, scene |-> scene,
                   crosshair |-> FALSE, effect |-> effect, found |-> renderer]
  <2>1. Push(call, scene, FALSE, effect) /\ renderer' = Entered(c)
    <3>1. Push(call, scene, FALSE, effect)
      BY <1>7, MeshEntered
    <3>2. renderer' = Entered(c)
      BY <1>7, MeshEntered DEF Entered
    <3> QED
      BY <3>1, <3>2
  <2>2. CallInv(c) /\ effect \in {"none", "drop", "shift", "steady"}
    BY DEF CallInv
  <2>3. /\ UNCHANGED <<cleanScene, reticle>>
        /\ stack # <<>> => Top.call # "draw"
    BY <1>7 DEF EnterMesh, CanCall
  <2> HIDE DEF c, effect
  <2>4. c = [call |-> call, detoured |-> call \in enabled, scene |-> scene,
             crosshair |-> FALSE, effect |-> effect, found |-> renderer]
    BY DEF c
  <2> QED
    BY <2>1, <2>2, <2>3, <2>4, PushStep
<1>8. CASE LeaveMesh
  BY <1>8, LeaveRestores, PopStep
<1>9. CASE InitThread
  BY <1>1, <1>9
  DEF InitThread, FindHooks, ReadVtables, Prepare, CreateHook, SetSlot, EnableHooks
<1>10. CASE UNCHANGED vars
  BY <1>1, <1>10 DEF vars
<1> QED
  BY <1>2, <1>3, <1>4, <1>5, <1>6, <1>7, <1>8, <1>9, <1>10 DEF Next, GameThread

\* The invariant of the draws: every call on the stack found what the calls
\* around it make of an untouched renderer, and what the innermost one makes of
\* it is the renderer now (reticle.rs 43-117, compass.rs 43-55).
THEOREM DrawsInductive == Spec => []GameInv
BY GameInvInit, GameInvNext, PTL DEF Spec

\* Whatever is drawn inside what, and whichever hooks are enabled meanwhile,
\* only a crosshair's draw is moved or dropped (hud.rs 188-205).
THEOREM OnlyCrosshairAlwaysMoves == Spec => []OnlyCrosshairMoves
<1>1. GameInv => OnlyCrosshairMoves
  <2> SUFFICES ASSUME GameInv, stack # <<>>, Top.call = "draw"
               PROVE  /\ Top.found.reticleDraw = InCrosshair(stack, Len(stack))
                      /\ Top.effect # "none" => /\ InCrosshair(stack, Len(stack))
                                                /\ Top.detoured
                      /\ renderer.viewports = "shifted" <=> Top.effect = "shift"
    BY DEF OnlyCrosshairMoves, InCrosshair
  <2>1. Nested(stack, renderer) /\ stack \in Seq(Calls)
    BY DEF GameInv, GameTypes
  <2>2. Len(stack) \in 1 .. Len(stack) /\ Len(stack) \in 1 .. Len(stack) + 1
    BY <2>1, Popped
  <2>3. /\ Top.found = Before(stack, Len(stack)) /\ Top.found.viewports = "game"
        /\ Top.found.reticleDraw = InCrosshair(stack, Len(stack))
    BY <2>1, <2>2 DEF Nested, Top
  <2>4. Top \in Calls /\ CallInv(Top) /\ renderer = Entered(Top)
    BY TopCall
  <2>5. renderer.viewports = IF Top.effect = "shift" THEN "shifted" ELSE "game"
    BY <2>3, <2>4, EnteredType
  <2> QED
    BY <2>3, <2>4, <2>5 DEF CallInv
<1> QED
  BY DrawsInductive, <1>1, PTL

\* Between draws the game's renderer is its own again (compass.rs 43-55).
THEOREM RendererAlwaysAsFound == Spec => []RendererAsFound
<1>1. GameInv => RendererAsFound
  <2> SUFFICES ASSUME GameInv, stack = <<>> PROVE renderer = Untouched
    BY DEF RendererAsFound
  <2>1. Len(stack) + 1 = 1
    OBVIOUS
  <2> QED
    BY <2>1 DEF GameInv, Nested, Before
<1> QED
  BY DrawsInductive, <1>1, PTL

\* At any depth a call that returns leaves the renderer as it found it, so what
\* the calls around it set up is there again (reticle.rs 58-61, compass.rs 43-55).
THEOREM CallsAlwaysRestore == Spec => EachCallRestores
<1>1. GameInv /\ [Next]_vars => [Len(stack') < Len(stack) => renderer' = Top.found]_vars
  <2> SUFFICES ASSUME GameInv, Next, Len(stack') < Len(stack) PROVE renderer' = Top.found
    OBVIOUS
  <2>1. stack \in Seq(Calls) /\ Len(stack) \in Nat
    BY DEF GameInv, GameTypes
  <2>2. CASE LeavePrimitive \/ LeaveDraw \/ LeaveMesh
    BY <2>2, LeaveRestores
  <2>3. stack' # stack
    BY <2>1
  <2>4. CASE InitThread \/ BuildView
    BY <2>3, <2>4
    DEF InitThread, FindHooks, ReadVtables, Prepare, CreateHook, SetSlot, EnableHooks,
        BuildView, gameVars
  <2>5. ASSUME NEW call, NEW scene, NEW crosshair, NEW effect,
               Push(call, scene, crosshair, effect)
        PROVE  FALSE
    <3>1. Len(stack') = Len(stack) + 1
      BY <2>1, <2>5 DEF Push
    <3> QED
      BY <2>1, <3>1
  <2>6. CASE \/ \E crosshair \in BOOLEAN : EnterPrimitive(crosshair)
             \/ EnterDraw
             \/ \E call \in {"mesh", "lit"}, scene \in Scenes, arrow \in BOOLEAN :
                  EnterMesh(call, scene, arrow)
    BY <2>5, <2>6, MeshEntered DEF EnterPrimitive, EnterDraw
  <2> QED
    BY <2>2, <2>4, <2>6 DEF Next, GameThread
<1> QED
  BY DrawsInductive, <1>1, PTL DEF Spec, EachCallRestores

-----------------------------------------------------------------------------
(* The compass                                                             *)

\* The scene whose clean matrices are set inside the first i - 1 calls.
SetBefore(calls, scene, i) ==
  IF \E k \in 1 .. i - 1 : calls[k].effect = "steady" THEN scene ELSE None

HasSet(now, scene) == now.view = scene /\ now.projection = scene

\* Each call found the matrices the calls around it set, all of the kept scene.
SceneInv ==
  /\ \A i \in 1 .. Len(stack) :
       /\ stack[i].effect = "steady" => stack[i].scene = cleanScene
       /\ HasSet(stack[i].found, SetBefore(stack, cleanScene, i))
  /\ HasSet(renderer, SetBefore(stack, cleanScene, Len(stack) + 1))

LEMMA PushScene ==
  ASSUME GameInv, SceneInv, UNCHANGED cleanScene,
         NEW c \in Calls, stack' = Append(stack, c), c.found = renderer,
         renderer' \in Renderers,
         \/ c.effect = "steady" /\ c.scene = cleanScene /\ HasSet(renderer', cleanScene)
         \/ c.effect # "steady" /\ renderer'.view = renderer.view
              /\ renderer'.projection = renderer.projection
  PROVE  SceneInv'
<1> DEFINE n == Len(stack)
<1>1. stack \in Seq(Calls)
  BY DEF GameInv, GameTypes
<1>2. /\ n \in Nat /\ Len(stack') = n + 1 /\ stack'[n + 1] = c
      /\ \A i \in 1 .. n : stack'[i] = stack[i]
  BY <1>1, Pushed
<1>3. ASSUME NEW i \in 1 .. n + 1 PROVE SetBefore(stack', cleanScene', i) = SetBefore(stack, cleanScene, i)
  <2>1. \A k \in 1 .. i - 1 : stack'[k] = stack[k]
    BY <1>2
  <2> QED
    BY <2>1 DEF SetBefore
<1>4. HasSet(renderer, SetBefore(stack, cleanScene, n + 1))
  BY DEF SceneInv
<1>5. ASSUME NEW i \in 1 .. n + 1
      PROVE  /\ stack'[i].effect = "steady" => stack'[i].scene = cleanScene
             /\ HasSet(stack'[i].found, SetBefore(stack', cleanScene', i))
  <2>1. CASE i = n + 1
    BY <1>2, <1>3, <1>4, <2>1
  <2>2. CASE i # n + 1
    <3>1. i \in 1 .. n
      BY <1>2, <2>2
    <3> QED
      BY <1>2, <1>3, <3>1 DEF SceneInv
  <2> QED
    BY <2>1, <2>2
<1>6. HasSet(renderer', SetBefore(stack', cleanScene', n + 2))
  <2>1. n + 1 \in 1 .. n + 2 - 1
    BY <1>2
  <2>2. CASE c.effect = "steady"
    <3>1. SetBefore(stack', cleanScene', n + 2) = cleanScene
      BY <1>2, <2>1, <2>2 DEF SetBefore
    <3> QED
      BY <2>2, <3>1
  <2>3. CASE c.effect # "steady"
    <3>1. \A k \in 1 .. n + 2 - 1 : k = n + 1 \/ k \in 1 .. n + 1 - 1
      BY <1>2
    <3>2. \A k \in 1 .. n + 1 - 1 : stack'[k] = stack[k] /\ k \in 1 .. n + 2 - 1
      BY <1>2
    <3>3. SetBefore(stack', cleanScene', n + 2) = SetBefore(stack, cleanScene, n + 1)
      BY <1>2, <2>3, <3>1, <3>2 DEF SetBefore
    <3> QED
      BY <1>4, <2>3, <3>3 DEF HasSet
  <2> QED
    BY <2>2, <2>3
<1>7. Len(stack') + 1 = n + 2
  BY <1>2
<1> QED
  BY <1>2, <1>5, <1>6, <1>7 DEF SceneInv, SetBefore

LEMMA PopScene ==
  ASSUME GameInv, SceneInv, LeavePrimitive \/ LeaveDraw \/ LeaveMesh
  PROVE  SceneInv'
<1> DEFINE n == Len(stack)
<1>1. /\ stack \in Seq(Calls) /\ stack # <<>> /\ UNCHANGED cleanScene
      /\ stack' = SubSeq(stack, 1, n - 1) /\ renderer' = stack[n].found
  BY LeaveRestores DEF GameInv, GameTypes, Pop, Top
<1>2. /\ n \in Nat \ {0} /\ Len(stack') = n - 1
      /\ \A i \in 1 .. n - 1 : stack'[i] = stack[i]
  BY <1>1, Popped
<1>3. ASSUME NEW i \in 1 .. n PROVE SetBefore(stack', cleanScene', i) = SetBefore(stack, cleanScene, i)
  <2>1. \A k \in 1 .. i - 1 : stack'[k] = stack[k]
    BY <1>2
  <2> QED
    BY <1>1, <2>1 DEF SetBefore
<1>4. n \in 1 .. n /\ Len(stack') + 1 = n /\ \A i \in 1 .. n - 1 : i \in 1 .. n
  BY <1>2
<1>5. HasSet(renderer', SetBefore(stack', cleanScene', Len(stack') + 1))
  BY <1>1, <1>3, <1>4 DEF SceneInv, SetBefore
<1>6. \A i \in 1 .. n - 1 :
        /\ stack'[i].effect = "steady" => stack'[i].scene = cleanScene'
        /\ HasSet(stack'[i].found, SetBefore(stack', cleanScene', i))
  BY <1>1, <1>2, <1>3, <1>4 DEF SceneInv
<1> QED
  BY <1>2, <1>5, <1>6 DEF SceneInv, SetBefore

LEMMA SceneInvInit == Init => SceneInv
<1> SUFFICES ASSUME Init PROVE SceneInv
  OBVIOUS
<1>1. Len(stack) = 0 /\ renderer = Untouched
  BY DEF Init
<1>2. (\A i \in 1 .. 0 : FALSE) /\ (\A k \in 1 .. 0 + 1 - 1 : FALSE)
  OBVIOUS
<1>3. SetBefore(stack, cleanScene, Len(stack) + 1) = None
  BY <1>1, <1>2 DEF SetBefore
<1> QED
  BY <1>1, <1>2, <1>3 DEF SceneInv, HasSet, Untouched

LEMMA SceneInvNext == GameInv /\ SceneInv /\ [Next]_vars => SceneInv'
<1> SUFFICES ASSUME GameInv, SceneInv, [Next]_vars PROVE SceneInv'
  OBVIOUS
<1>0. GameInv'
  BY GameInvNext
<1>1. renderer \in Renderers /\ renderer' \in Renderers
  BY <1>0 DEF GameInv, GameTypes
<1>2. CASE UNCHANGED gameVars
  BY <1>2 DEF gameVars, SceneInv, SetBefore
<1>3. CASE BuildView
  <2>1. Len(stack) = 0 /\ UNCHANGED <<renderer, stack>>
    BY <1>3 DEF BuildView
  <2>2. (\A i \in 1 .. 0 : FALSE) /\ (\A k \in 1 .. 0 + 1 - 1 : FALSE)
    OBVIOUS
  <2>3. SetBefore(stack, cleanScene, Len(stack) + 1) = None /\ SetBefore(stack', cleanScene', Len(stack') + 1) = None
    BY <2>1, <2>2 DEF SetBefore
  <2> QED
    BY <2>1, <2>2, <2>3 DEF SceneInv
<1>4. ASSUME NEW call, NEW scene, NEW crosshair, NEW effect, effect # "steady",
             Push(call, scene, crosshair, effect), UNCHANGED cleanScene,
             renderer'.view = renderer.view, renderer'.projection = renderer.projection,
             call \in {"mesh", "lit", "primitive", "draw"}, scene \in Scenes \cup {None},
             crosshair \in BOOLEAN, effect \in {"none", "drop", "shift", "steady"}
      PROVE  SceneInv'
  <2> DEFINE c == [call |-> call, detoured |-> call \in enabled, scene |-> scene,
                   crosshair |-> crosshair, effect |-> effect, found |-> renderer]
  <2>1. c \in Calls /\ c.found = renderer /\ c.effect = effect
    BY <1>1, <1>4 DEF Calls
  <2>2. stack' = Append(stack, c)
    BY <1>4 DEF Push
  <2> HIDE DEF c
  <2> QED
    BY <1>1, <1>4, <2>1, <2>2, PushScene
<1>5. ASSUME NEW crosshair \in BOOLEAN, EnterPrimitive(crosshair) PROVE SceneInv'
  <2>1. renderer'.view = renderer.view /\ renderer'.projection = renderer.projection
    BY <1>1, <1>5 DEF EnterPrimitive, Renderers
  <2> QED
    BY <1>4, <1>5, <2>1 DEF EnterPrimitive
<1>6. CASE EnterDraw
  <2>1. PICK state \in {reticle, "inactive"} :
          /\ Push("draw", None, FALSE, Effect[state])
          /\ renderer' = [renderer EXCEPT !.viewports =
                            IF Effect[state] = "shift" THEN "shifted" ELSE @]
    BY <1>6 DEF EnterDraw
  <2>2. Effect[state] \in {"none", "drop", "shift"}
    BY DEF Effect, GameInv, GameTypes
  <2>3. renderer'.view = renderer.view /\ renderer'.projection = renderer.projection
    BY <1>1, <2>1 DEF Renderers
  <2>4. UNCHANGED cleanScene
    BY <1>6 DEF EnterDraw
  <2> QED
    BY <1>4, <2>1, <2>2, <2>3, <2>4
<1>7. ASSUME NEW call \in {"mesh", "lit"}, NEW scene \in Scenes, NEW arrow \in BOOLEAN,
             EnterMesh(call, scene, arrow)
      PROVE  SceneInv'
  <2>1. UNCHANGED cleanScene
    BY <1>7 DEF EnterMesh
  <2>2. CASE call \in enabled /\ arrow /\ cleanScene = scene
    <3> DEFINE c == [call |-> call, detoured |-> call \in enabled, scene |-> scene,
                     crosshair |-> FALSE, effect |-> "steady", found |-> renderer]
    <3>1. c \in Calls /\ c.found = renderer /\ c.effect = "steady" /\ c.scene = cleanScene
      BY <1>1, <2>2 DEF Calls
    <3>2. /\ stack' = Append(stack, c)
          /\ renderer' = [renderer EXCEPT !.view = scene, !.projection = scene]
      BY <1>7, <2>2, MeshEntered DEF Push
    <3>3. HasSet(renderer', cleanScene)
      BY <1>1, <2>2, <3>2 DEF HasSet, Renderers
    <3> HIDE DEF c
    <3> QED
      BY <1>1, <2>1, <3>1, <3>2, <3>3, PushScene
  <2>3. CASE ~(call \in enabled /\ arrow /\ cleanScene = scene)
    BY <1>4, <1>7, <2>1, <2>3, MeshEntered
  <2> QED
    BY <2>2, <2>3
<1>8. CASE LeavePrimitive \/ LeaveDraw \/ LeaveMesh
  BY <1>8, PopScene
<1>9. CASE InitThread
  BY <1>2, <1>9
  DEF InitThread, FindHooks, ReadVtables, Prepare, CreateHook, SetSlot, EnableHooks
<1>10. CASE UNCHANGED vars
  BY <1>2, <1>10 DEF vars
<1> QED
  BY <1>3, <1>5, <1>6, <1>7, <1>8, <1>9, <1>10 DEF Next, GameThread

\* However draws nest and whichever scenes they are of, clean matrices are set
\* only inside a mesh of the scene of the last view posed, and they are that
\* scene's (engine_hook.rs 217-223, compass.rs 35-55).
THEOREM CompassAlwaysInOwnScene == Spec => []CompassInOwnScene
<1>1. GameInv /\ SceneInv => CompassInOwnScene
  <2> SUFFICES ASSUME GameInv, SceneInv PROVE CompassInOwnScene
    OBVIOUS
  <2> DEFINE steady == {k \in 1 .. Len(stack) : stack[k].effect = "steady"}
  <2>1. Len(stack) \in Nat
    BY DEF GameInv, GameTypes
  <2>2. Len(stack) + 1 - 1 = Len(stack)
    BY <2>1
  <2>3. SetBefore(stack, cleanScene, Len(stack) + 1) = IF steady = {} THEN None ELSE cleanScene
    BY <2>2 DEF SetBefore
  <2>4. \A k \in steady : stack[k].scene = cleanScene
    BY DEF SceneInv
  <2> QED
    BY <2>3, <2>4 DEF SceneInv, HasSet, CompassInOwnScene
<1>2. Spec => []SceneInv
  BY DrawsInductive, SceneInvInit, SceneInvNext, PTL DEF Spec
<1> QED
  BY DrawsInductive, <1>1, <1>2, PTL

-----------------------------------------------------------------------------
(* Types                                                                   *)

SetsInv == cells \subseteq Cells /\ failed \subseteq {"engine", "d3d"}

LEMMA SetsInvNext == IInv /\ SetsInv /\ [Next]_vars => SetsInv'
<1> SUFFICES ASSUME IInv, SetsInv, [Next]_vars PROVE SetsInv'
  OBVIOUS
<1>1. /\ Hook \in Hooks
      /\ Group(Hook) \in {"engine", "d3d"}
  BY HookCases DEF IInv, PlaceInv
<1>2. \A h \in Hooks : h \in Cells /\ Prepared(h) \subseteq Cells
  BY DEF Cells
<1>3. CASE UNCHANGED <<cells, failed>>
  BY <1>3 DEF SetsInv
<1>4. CASE FindHooks \/ ReadVtables \/ CreateHook \/ EnableHooks
  BY <1>1, <1>4 DEF FindHooks, ReadVtables, CreateHook, EnableHooks, GiveUp, SetsInv
<1>5. CASE Prepare \/ SetSlot
  BY <1>1, <1>2, <1>5 DEF Prepare, SetSlot, SetsInv
<1>6. CASE GameThread
  BY <1>3, <1>6
  DEF GameThread, BuildView, EnterPrimitive, LeavePrimitive, EnterDraw, LeaveDraw, EnterMesh,
      LeaveMesh, initVars
<1>7. CASE UNCHANGED vars
  BY <1>3, <1>7 DEF vars, initVars
<1> QED
  BY <1>4, <1>5, <1>6, <1>7 DEF Next, InitThread

\* Every variable keeps its type; the renderer's and the stack's rest on the
\* draws' invariant (hook_util.rs 15-43).
THEOREM TypeCorrect == Spec => []TypeOK
<1>1. Init => SetsInv
  BY DEF Init, SetsInv
<1>2. IInv /\ SetsInv /\ GameInv => TypeOK
  <2> SUFFICES ASSUME IInv, SetsInv, GameInv PROVE TypeOK
    OBVIOUS
  <2>1. Len(InstallOrder) = 6
    BY DEF InstallOrder
  <2>2. Steps = {"find", "vtable", "prepare", "done"} \cup {HookProgram[i] : i \in 1 .. 3}
    <3>1. \A i \in 1 .. 3 : i = 1 \/ i = 2 \/ i = 3
      OBVIOUS
    <3> QED
      BY <3>1 DEF Steps, HookProgram
  <2> QED
    BY <2>1, <2>2 DEF IInv, PlaceInv, SetsInv, GameInv, GameTypes, TypeOK
<1>3. Spec => []SetsInv
  BY <1>1, Inductive, SetsInvNext, PTL DEF Spec
<1> QED
  BY <1>2, <1>3, Inductive, DrawsInductive, PTL

=============================================================================
