-------------------------- MODULE Execution_proofs --------------------------
(* Proofs about the memory of Execution, for every size of the kernel, of  *)
(* programs and of their buffers and every set of programs and scripts;    *)
(* and about chain: what its lines are taken apart into, for scripts of    *)
(* every length and with every number in them, and that it does what the   *)
(* manual says of them.                                                    *)
EXTENDS ExecutionChain, SequenceTheorems, FiniteSetTheorems, TLAPS

(* What malloc's rounding does to a free pointer beyond the first page.    *)
LEMMA PlaceFacts ==
    ASSUME NEW x \in Nat, x >= Page
    PROVE  /\ Place(x) \in Nat /\ Place(x) >= x /\ Place(x) >= 2 * Page
           /\ Place(x) % Page = 0
  BY SMT DEF Place, Floor, Page

(* A page below an aligned address malloc starts at that address.          *)
LEMMA PlaceBack ==
    ASSUME NEW at \in Nat, at >= 2 * Page, at % Page = 0
    PROVE  /\ at - Page \in Nat /\ at - Page >= Page
           /\ Place(at - Page) = at
  BY SMT DEF Place, Floor, Page

-----------------------------------------------------------------------------
(* The inductive invariant.                                                *)

(* Level l waits for the program it has executed: its free pointer is just *)
(* behind that program, and all that lower levels use is in front of it.   *)
Held(l) ==
    /\ free[l] - ProgramSize \in Nat
    /\ free[l] - ProgramSize >= 2 * Page
    /\ (free[l] - ProgramSize) % Page = 0
    /\ Area(l + 1, free[l] - ProgramSize, ProgramSize) \in areas
    /\ \A a \in areas : a.level <= l => a.to <= free[l] - ProgramSize

(* Whatever the running level may be given next lies above all areas.      *)
Ready(l) == free[l] >= Page /\ \A a \in areas : a.to <= Place(free[l])

(* The running level has a free pointer of its own.                        *)
Owns == \/ pc \in {"prompt", "execute", "chain", "statement", "next"}
        \/ pc = "alloc" /\ Buffers[name[depth]] # <<>>

Control ==
    /\ pc \in {"loader", "halted", "prompt", "execute", "start", "alloc", "chain", "statement",
              "next"}
    /\ depth \in Levels
    /\ pc \in {"loader", "halted", "prompt"} => depth = 0
    /\ pc = "execute" => depth < 2
    /\ pc \in {"start", "alloc"} => depth > 0
    /\ pc \in {"chain", "statement", "next"} => depth = 1

Types ==
    /\ bootable \subseteq Drives
    /\ pc \notin {"loader", "halted"} => system \in Drives
    /\ free \in [Levels -> Nat] /\ envfree \in Nat /\ got \in Nat
    /\ DOMAIN name = Levels
    /\ pc \in {"start", "alloc"} => name[depth] \in Programs
    /\ areas \subseteq [level : Levels, from : Nat, to : Nat]
    /\ \A a \in areas : a.level <= depth /\ a.from <= a.to

Shell ==
    /\ depth = 0 /\ pc \in {"prompt", "execute"} => Place(free[0]) = Place(KernelFree)
    /\ depth > 0 => free[0] - ProgramSize = Place(KernelFree)

MemoryInv ==
    /\ Control /\ Types /\ Shell /\ AreasApart
    /\ \A l \in Levels : l < depth => Held(l)
    /\ Owns => Ready(depth)
    /\ pc = "loader" => areas = {}
    /\ pc = "start" => /\ envfree = free[depth - 1]
                       /\ \A a \in areas : a.to <= envfree

-----------------------------------------------------------------------------
(* The numbers of the code are what the assumption says.                   *)
LEMMA Sizes ==
    /\ FirstFree \in Nat /\ FirstFree >= Page /\ EnvSize \in Nat /\ KernelSize \in Nat
    /\ ProgramSize \in Nat /\ Release = ProgramSize + Page
    /\ EnvPlace \in Nat /\ EnvPlace >= Page
    /\ KernelPlace \in Nat /\ KernelPlace >= EnvPlace + EnvSize /\ KernelPlace >= Page
    /\ KernelFree \in Nat /\ KernelFree >= Page
  <1>1. /\ FirstFree \in Nat /\ FirstFree >= Page /\ EnvSize \in Nat
        /\ KernelSize \in Nat /\ ProgramSize \in Nat /\ Release = ProgramSize + Page
    BY ExecutionAssumption
  <1>2. EnvPlace \in Nat /\ EnvPlace >= 2 * Page
    BY <1>1, PlaceFacts DEF EnvPlace
  <1>3. EnvPlace + EnvSize \in Nat /\ EnvPlace + EnvSize >= Page
    BY <1>1, <1>2 DEF Page
  <1>4. /\ KernelPlace \in Nat /\ KernelPlace >= EnvPlace + EnvSize
        /\ KernelPlace >= 2 * Page
    BY <1>3, PlaceFacts DEF KernelPlace
  <1> QED
    BY <1>1, <1>2, <1>3, <1>4 DEF KernelFree, Page

(* The loader takes the first of the drives it can boot from.              *)
LEMMA FirstDrive ==
    ASSUME NEW S, S \subseteq Drives, S # {}
    PROVE  Min(S) \in S
  <1>1. S \subseteq 0 .. 3
    BY ExecutionAssumption
  <1>2. \E x \in S : \A y \in S : x <= y
    <2>1. CASE 0 \in S
      BY <1>1, <2>1
    <2>2. CASE 0 \notin S /\ 1 \in S
      BY <1>1, <2>2
    <2>3. CASE 0 \notin S /\ 1 \notin S /\ 2 \in S
      BY <1>1, <2>3
    <2>4. CASE 0 \notin S /\ 1 \notin S /\ 2 \notin S
      <3>1. \A y \in S : y = 3
        BY <1>1, <2>4
      <3> QED
        BY <3>1
    <2> QED
      BY <2>1, <2>2, <2>3, <2>4
  <1> QED
    BY <1>2 DEF Min

LEMMA InitInv == Init => MemoryInv
  <1> SUFFICES ASSUME Init PROVE MemoryInv
    OBVIOUS
  <1>0. pc = "loader" /\ depth = 0 /\ areas = {}
    BY DEF Init
  <1>1. Control /\ Shell
    BY <1>0 DEF Control, Shell, Levels
  <1>2. Types
    <2>1. free \in [Levels -> Nat] /\ envfree \in Nat /\ got \in Nat /\ bootable \subseteq Drives
      BY Sizes DEF Init
    <2>2. name = [l \in Levels |-> ""]
      BY DEF Init
    <2>3. DOMAIN name = Levels
      BY <2>2
    <2> QED
      BY <1>0, <2>1, <2>3 DEF Types
  <1>3. AreasApart /\ ~Owns
    BY <1>0 DEF AreasApart, Owns
  <1> QED
    BY <1>0, <1>1, <1>2, <1>3 DEF MemoryInv, Levels

(* The kernel and its environment are the first areas.                     *)
LEMMA LoadInv == MemoryInv /\ Load => MemoryInv'
  <1> SUFFICES ASSUME MemoryInv, Load PROVE MemoryInv'
    OBVIOUS
  <1> USE DEF MemoryInv, Load
  <1>1. depth = 0 /\ depth' = 0 /\ pc' = "prompt"
    BY DEF Control
  <1>2. free' = [free EXCEPT ![0] = KernelFree] /\ free'[0] = KernelFree
    BY DEF Types, Levels
  <1>3. Control' /\ Shell'
    BY <1>1, <1>2 DEF Control, Shell
  <1>4. areas' \subseteq [level : Levels, from : Nat, to : Nat]
        /\ \A a \in areas' : a.level <= depth' /\ a.from <= a.to /\ a.to <= KernelFree
    BY <1>1, Sizes DEF Area, Levels, KernelFree
  <1>5. Types'
    BY <1>1, <1>2, <1>4, Sizes, FirstDrive DEF Types, Levels
  <1>6. AreasApart'
    BY Sizes DEF AreasApart, Apart, Area
  <1>7. Ready(depth)'
    BY <1>1, <1>2, <1>4, <1>5, Sizes, PlaceFacts DEF Ready, Types
  <1> QED
    BY <1>1, <1>3, <1>5, <1>6, <1>7 DEF Levels

(* execute puts the program above everything in use.                       *)
LEMMA ExecuteInv == MemoryInv /\ Execute => MemoryInv'
  <1> SUFFICES ASSUME MemoryInv, Execute PROVE MemoryInv'
    OBVIOUS
  <1> DEFINE at == Place(free[depth])
  <1> USE DEF MemoryInv
  <1>1. depth \in 0 .. 1 /\ depth' = depth + 1 /\ pc' = "start" /\ Owns
    BY DEF Control, Execute, Owns, Levels
  <1>2. at \in Nat /\ at >= free[depth] /\ at >= 2 * Page /\ at % Page = 0
    BY <1>1, PlaceFacts DEF Ready, Types, Levels
  <1>3. /\ free' = [free EXCEPT ![depth] = at + ProgramSize, ![depth + 1] = FirstFree]
        /\ free'[depth] = at + ProgramSize
        /\ \A l \in Levels : l < depth => free'[l] = free[l]
        /\ envfree' = at + ProgramSize
    BY <1>1 DEF Execute, Types, Levels
  <1>4. areas' = areas \union {Area(depth + 1, at, ProgramSize)}
    BY DEF Execute
  <1>5. Control'
    BY <1>1 DEF Control, Levels
  <1>6. Types'
    <2>1. free' \in [Levels -> Nat] /\ envfree' \in Nat
      BY <1>1, <1>2, <1>3, Sizes DEF Types, Levels
    <2>2. /\ areas' \subseteq [level : Levels, from : Nat, to : Nat]
          /\ \A a \in areas' : a.level <= depth' /\ a.from <= a.to
      BY <1>1, <1>2, <1>4, Sizes DEF Types, Area, Levels
    <2>3. system \in Drives /\ system' = system /\ bootable' = bootable /\ got' \in Nat
      BY DEF Execute, Types
    <2>4. call.cmd[1] \in Programs
      <3>1. PICK p \in ProgramsOn[system] : call.cmd = <<p>>
        BY DEF Execute, Found, SearchDrive
      <3>2. p \in Programs /\ call.cmd[1] = p
        BY <2>3, <3>1, ExecutionAssumption
      <3> QED
        BY <3>2
    <2>5. DOMAIN name' = Levels /\ name'[depth'] \in Programs
      BY <1>1, <2>4 DEF Execute, Types, Levels
    <2> QED
      BY <1>1, <2>1, <2>2, <2>3, <2>5 DEF Types
  <1>7. Shell'
    <2>1. CASE depth = 0
      <3>1. at = Place(KernelFree)
        BY <2>1 DEF Shell, Execute
      <3>2. free'[0] = at + ProgramSize /\ depth' # 0
        BY <1>1, <1>3, <2>1
      <3> QED
        BY <1>2, <3>1, <3>2, Sizes DEF Shell
    <2>2. CASE depth = 1
      BY <1>1, <1>3, <2>2 DEF Shell, Levels
    <2> QED
      BY <1>1, <2>1, <2>2
  <1>8. AreasApart'
    BY <1>1, <1>2, <1>4, Sizes DEF AreasApart, Apart, Area, Ready, Types, Levels
  <1>9. ASSUME NEW l \in Levels, l < depth'
        PROVE  Held(l)'
    <2>1. CASE l < depth
      <3>1. Held(l) /\ free'[l] = free[l]
        BY <1>3, <2>1
      <3>2. \A a \in areas' : a.level <= l => a \in areas
        BY <1>1, <1>4, <2>1 DEF Area, Levels
      <3> QED
        BY <1>4, <3>1, <3>2 DEF Held
    <2>2. CASE l = depth
      <3>1. free'[l] - ProgramSize = at
        BY <1>2, <1>3, <2>2, Sizes
      <3>2. \A a \in areas' : a.level <= l => a \in areas
        BY <1>1, <1>4, <2>2 DEF Area, Levels
      <3>3. \A a \in areas' : a.level <= l => a.to <= at
        BY <1>1, <3>2 DEF Ready
      <3>4. Area(l + 1, at, ProgramSize) \in areas'
        BY <1>4, <2>2
      <3> QED
        BY <1>2, <3>1, <3>3, <3>4 DEF Held
    <2> QED
      BY <1>1, <1>9, <2>1, <2>2 DEF Levels
  <1>10. envfree' = free'[depth' - 1] /\ \A a \in areas' : a.to <= envfree'
    <2>1. \A a \in areas : a.to <= at /\ a.to \in Nat
      BY <1>1 DEF Ready, Types
    <2>2. Area(depth + 1, at, ProgramSize).to = at + ProgramSize
      BY DEF Area
    <2> QED
      BY <1>1, <1>2, <1>3, <1>4, <2>1, <2>2, Sizes DEF Levels
  <1>11. ~Owns'
    BY <1>1 DEF Owns
  <1> QED
    BY <1>1, <1>5, <1>6, <1>7, <1>8, <1>9, <1>10, <1>11

(* A program that allocates takes over the free pointer of its caller.     *)
LEMMA StartInv == MemoryInv /\ Start => MemoryInv'
  <1> SUFFICES ASSUME MemoryInv, Start PROVE MemoryInv'
    OBVIOUS
  <1> USE DEF MemoryInv
  <1>1. depth \in 1 .. 2 /\ depth' = depth /\ pc' = "alloc" /\ areas' = areas
    BY DEF Control, Start, Levels
  <1>2. /\ name' = name /\ envfree' = envfree /\ got' = got
        /\ system' = system /\ bootable' = bootable
    BY DEF Start
  <1>3. /\ free' \in [Levels -> Nat]
        /\ \A l \in Levels : l < depth => free'[l] = free[l]
        /\ Buffers[name[depth]] # <<>> => free'[depth] = free[depth - 1]
    BY <1>1 DEF Start, Types, Levels
  <1>4. Control' /\ Shell'
    BY <1>1, <1>3 DEF Control, Shell, Levels
  <1>5. Types'
    BY <1>1, <1>2, <1>3, ExecutionAssumption DEF Types, Start
  <1>6. AreasApart'
    BY <1>1 DEF AreasApart
  <1>7. \A l \in Levels : l < depth' => Held(l)'
    BY <1>1, <1>3 DEF Held
  <1>8. ASSUME Buffers[name[depth]] # <<>>
        PROVE  Ready(depth)'
    <2> DEFINE l == depth - 1
    <2>1. Held(l) /\ free'[depth] = free[l] /\ free[l] \in Nat /\ l \in Levels
      BY <1>1, <1>3, <1>8 DEF Types, Levels
    <2>2. free[l] >= Page /\ Place(free[l]) >= free[l] /\ Place(free[l]) \in Nat
      BY <2>1, Sizes, PlaceFacts DEF Held, Page
    <2>3. \A a \in areas : a.to <= free[l] /\ a.to \in Nat
      BY DEF Start, Types
    <2> QED
      BY <1>1, <2>1, <2>2, <2>3 DEF Ready, Types
  <1> QED
    BY <1>1, <1>2, <1>4, <1>5, <1>6, <1>7, <1>8 DEF Owns

(* The next buffer of a program lies above everything in use.              *)
LEMMA MallocInv == MemoryInv /\ Malloc => MemoryInv'
  <1> SUFFICES ASSUME MemoryInv, Malloc PROVE MemoryInv'
    OBVIOUS
  <1> DEFINE at   == Place(free[depth])
             size == Buffers[name[depth]][got + 1]
  <1> USE DEF MemoryInv
  <1>0. /\ depth' = depth /\ pc = "alloc" /\ pc' = "alloc" /\ envfree' = envfree
        /\ name' = name /\ bootable' = bootable /\ drives' = drives
    BY DEF Malloc
  <1>1. /\ depth \in 1 .. 2 /\ depth' = depth /\ pc = "alloc" /\ pc' = "alloc"
        /\ name' = name /\ system' = system /\ bootable' = bootable /\ envfree' = envfree
    BY <1>0 DEF Control, Levels, drives
  <1>2. size \in Nat /\ Buffers[name[depth]] # <<>> /\ got' \in Nat
    <2>1. Buffers[name[depth]] \in Seq(Nat) /\ got \in Nat
      BY <1>1, ExecutionAssumption DEF Types
    <2>2. got < Len(Buffers[name[depth]]) /\ got' = got + 1
      BY DEF Malloc
    <2> QED
      BY <2>1, <2>2
  <1>3. Ready(depth) /\ Owns
    BY <1>1, <1>2 DEF Owns
  <1>4. at \in Nat /\ at >= free[depth] /\ at >= 2 * Page
    BY <1>1, <1>3, PlaceFacts DEF Ready, Types, Levels
  <1>5. /\ free' = [free EXCEPT ![depth] = at + size] /\ free'[depth] = at + size
        /\ \A l \in Levels : l < depth => free'[l] = free[l]
        /\ free' \in [Levels -> Nat]
    <2>1. free' = [free EXCEPT ![depth] = at + size]
      BY DEF Malloc
    <2> HIDE DEF at, size
    <2> QED
      BY <1>1, <1>2, <1>4, <2>1 DEF Types, Levels
  <1>6. areas' = areas \union {Area(depth, at, size)}
    BY DEF Malloc
  <1>7. Control' /\ Shell'
    BY <1>1, <1>5 DEF Control, Shell, Levels
  <1>8. /\ areas' \subseteq [level : Levels, from : Nat, to : Nat]
        /\ \A a \in areas' : a.level <= depth' /\ a.from <= a.to
    BY <1>1, <1>2, <1>4, <1>6 DEF Types, Area, Levels
  <1>9. Types'
    BY <1>1, <1>2, <1>5, <1>8 DEF Types
  <1>10. AreasApart'
    BY <1>1, <1>2, <1>3, <1>4, <1>6 DEF AreasApart, Apart, Area, Ready, Types, Levels
  <1>11. ASSUME NEW l \in Levels, l < depth'
         PROVE  Held(l)'
    <2>1. Held(l) /\ free'[l] = free[l]
      BY <1>1, <1>5, <1>11
    <2>2. \A a \in areas' : a.level <= l => a \in areas
      BY <1>1, <1>6, <1>11 DEF Area, Levels
    <2> QED
      BY <1>6, <2>1, <2>2 DEF Held
  <1>12. Ready(depth)'
    <2>1. at + size \in Nat /\ at + size >= Page
      BY <1>2, <1>4 DEF Page
    <2>2. Place(at + size) >= at + size /\ Place(at + size) \in Nat
      BY <2>1, PlaceFacts
    <2>3. \A a \in areas : a.to <= at /\ a.to \in Nat
      BY <1>3 DEF Ready, Types
    <2>4. Area(depth, at, size).to = at + size
      BY DEF Area
    <2> QED
      BY <1>1, <1>2, <1>4, <1>5, <1>6, <2>1, <2>2, <2>3, <2>4 DEF Ready
  <1> QED
    BY <1>1, <1>7, <1>9, <1>10, <1>11, <1>12

(* The end of a program leaves its caller ready to allocate just where the *)
(* program was.                                                            *)
LEMMA ReleaseInv ==
    ASSUME MemoryInv, NEW value, depth > 0, ReleaseTo(depth - 1, value),
           UNCHANGED <<bootable, got, system, name>>
    PROVE  MemoryInv'
  <1> DEFINE l  == depth - 1
             at == free[l] - ProgramSize
  <1> USE DEF MemoryInv
  <1>1. l \in 0 .. 1 /\ l \in Levels /\ depth' = l /\ pc' = Caller(l) /\ Held(l)
    BY DEF Control, Levels, ReleaseTo
  <1>2. pc' = (IF l = 0 THEN "prompt" ELSE "next")
    BY <1>1 DEF Caller
  <1>3. at \in Nat /\ at >= 2 * Page /\ at % Page = 0
    BY <1>1 DEF Held
  <1>4. /\ free[l] - Release = at - Page /\ at - Page \in Nat /\ at - Page >= Page
        /\ Place(at - Page) = at
    <2>1. free[l] \in Nat
      BY <1>1 DEF Types
    <2>2. free[l] - Release = at - Page
      BY <2>1, Sizes DEF Page
    <2> QED
      BY <1>3, <2>2, PlaceBack
  <1>5. /\ free' = [free EXCEPT ![l] = at - Page] /\ free'[l] = at - Page
        /\ envfree' = at - Page
        /\ free' \in [Levels -> Nat]
        /\ \A k \in Levels : k < l => free'[k] = free[k]
    <2>1. /\ free' = [free EXCEPT ![l] = Lowered(@)]
          /\ envfree' = Lowered(free[l])
      BY DEF ReleaseTo
    <2>2. Lowered(free[l]) = at - Page
      BY <1>4 DEF Lowered
    <2>3. free' = [free EXCEPT ![l] = at - Page]
      BY <2>1, <2>2
    <2> QED
      BY <1>1, <1>4, <2>1, <2>2, <2>3 DEF Types, Levels
  <1>6. areas' = {a \in areas : a.level <= l}
    BY DEF ReleaseTo
  <1>7. Control'
    BY <1>1, <1>2 DEF Control, Levels
  <1>8. Types'
    <2>1. system' \in Drives
      BY DEF Types, Control
    <2> QED
      BY <1>1, <1>2, <1>4, <1>5, <1>6, <2>1 DEF Types
  <1>9. Shell'
    <2>1. CASE l = 0
      BY <1>1, <1>4, <1>5, <2>1 DEF Shell
    <2>2. CASE l = 1
      BY <1>1, <1>5, <2>2 DEF Shell, Levels
    <2> QED
      BY <1>1, <2>1, <2>2
  <1>10. AreasApart'
    BY <1>6 DEF AreasApart
  <1>11. ASSUME NEW k \in Levels, k < depth'
         PROVE  Held(k)'
    <2>1. Held(k) /\ free'[k] = free[k] /\ k + 1 <= l
      BY <1>1, <1>5, <1>11 DEF Levels
    <2>2. Area(k + 1, free[k] - ProgramSize, ProgramSize) \in areas'
      BY <1>6, <2>1 DEF Held, Area
    <2> QED
      BY <1>6, <2>1, <2>2 DEF Held
  <1>12. Ready(depth)'
    BY <1>1, <1>4, <1>5, <1>6 DEF Ready, Held
  <1> QED
    BY <1>1, <1>2, <1>7, <1>8, <1>9, <1>10, <1>11, <1>12

(* The other actions change neither who uses which memory nor the free     *)
(* pointers, and keep the processor where its level may be.                *)
Elsewhere ==
    /\ UNCHANGED <<bootable, depth, free, envfree, areas, got, system, name>>
    /\ \/ pc = "loader" /\ pc' = "halted"
       \/ depth = 0 /\ pc = "prompt" /\ pc' = "execute"
       \/ depth = 0 /\ pc = "execute" /\ pc' = "prompt"
       \/ depth = 1 /\ pc = "execute" /\ pc' = "next"
       \/ depth = 1 /\ pc = "chain" /\ pc' = "statement"
       \/ depth = 1 /\ pc = "statement" /\ pc' \in {"execute", "next"}
       \/ depth = 1 /\ pc = "next" /\ pc' = "chain"
       \/ depth = 1 /\ Allocated /\ name[1] = "chain" /\ Owns /\ pc' = "chain"
       \/ pc' = pc

LEMMA ElsewhereInv == MemoryInv /\ Elsewhere => MemoryInv'
  <1> SUFFICES ASSUME MemoryInv, Elsewhere PROVE MemoryInv'
    OBVIOUS
  <1> USE DEF MemoryInv
  <1>1. /\ bootable' = bootable /\ depth' = depth /\ free' = free /\ envfree' = envfree
        /\ areas' = areas /\ got' = got /\ system' = system /\ name' = name
    BY DEF Elsewhere
  <1>2. Control'
    BY <1>1 DEF Control, Elsewhere, Allocated
  <1>3. Types'
    BY <1>1 DEF Types, Elsewhere, Control, Allocated
  <1>4. Shell'
    BY <1>1 DEF Shell, Elsewhere, Allocated
  <1>5. AreasApart'
    BY <1>1 DEF AreasApart
  <1>6. \A l \in Levels : l < depth' => Held(l)'
    BY <1>1 DEF Held
  <1>7. Owns' => Ready(depth)'
    <2>1. Owns' => Owns
      BY <1>1 DEF Owns, Elsewhere
    <2> QED
      BY <1>1, <2>1 DEF Ready
  <1> QED
    BY <1>1, <1>2, <1>3, <1>4, <1>5, <1>6, <1>7 DEF Elsewhere

(* What an action of Next is to the memory.                                *)
Released ==
    /\ depth > 0 /\ \E value \in {0, 1} : ReleaseTo(depth - 1, value)
    /\ UNCHANGED <<bootable, got, system, name>>

LEMMA Kinds ==
    ASSUME MemoryInv, Next
    PROVE  Load \/ Execute \/ Start \/ Malloc \/ Released \/ Elsewhere
  <1> USE DEF MemoryInv
  <1>1. CASE Load \/ Execute \/ Start \/ Malloc
    BY <1>1
  <1>2. CASE Halt
    BY <1>2 DEF Halt, Elsewhere, memory, drives
  <1>3. ASSUME NEW line \in Commands, Type(line) PROVE Elsewhere
    BY <1>3 DEF Type, Elsewhere, memory, Control
  <1>4. CASE Missing
    <2>1. depth \in 0 .. 1 /\ pc' = (IF depth = 0 THEN "prompt" ELSE "next")
      BY <1>4 DEF Missing, Caller, Control, Levels
    <2> QED
      BY <1>4, <2>1 DEF Missing, Elsewhere, memory
  <1>5. ASSUME Allocated PROVE depth > 0 /\ depth \in 1 .. 2
    BY <1>5 DEF Allocated, Control, Levels
  <1>6. CASE Work
    BY <1>5, <1>6 DEF Work, Released, drives
  <1>7. CASE DriveProgram
    <2>1. depth > 0 /\ UNCHANGED <<bootable, got, system, name>>
      BY <1>5, <1>7 DEF DriveProgram
    <2>2. ReleaseTo(depth - 1, IF Asked \in Drives THEN 0 ELSE 1)
      BY <1>7 DEF DriveProgram
    <2> QED
      BY <2>1, <2>2 DEF Released
  <1>8. CASE ChainStart
    <2>1. Buffers[name[depth]] # <<>>
      BY <1>8, ExecutionAssumption DEF ChainStart
    <2>2. Owns
      BY <1>8, <2>1 DEF Owns, ChainStart, Allocated
    <2> QED
      BY <1>8, <2>2 DEF ChainStart, Allocated, Elsewhere, memory, drives
  <1>9. CASE Take \/ PrintText \/ JumpIf \/ Jump \/ Run
    <2>1. depth = 1 /\ pc \in {"chain", "statement"}
      BY <1>9 DEF Take, PrintText, JumpIf, Jump, Run, Marked, Control
    <2>2. CASE Take
      BY <2>1, <2>2 DEF Take, Elsewhere, memory, drives
    <2>3. CASE PrintText \/ JumpIf \/ Jump \/ Run
      BY <2>1, <2>3 DEF PrintText, JumpIf, Jump, Run, Marked, Elsewhere, memory, drives, chain
    <2> QED
      BY <1>9, <2>2, <2>3
  <1>10. CASE Next1
    BY <1>10 DEF Next1, Elsewhere, memory, drives, Control
  <1>11. CASE ChainEnd
    <2>1. depth > 0
      BY <1>5, <1>11 DEF ChainEnd, Control
    <2> QED
      BY <1>11, <2>1 DEF ChainEnd, Released, drives
  <1> QED
    BY <1>1, <1>2, <1>3, <1>4, <1>6, <1>7, <1>8, <1>9, <1>10, <1>11
    DEF Next, Step, Chain

LEMMA NextInv == MemoryInv /\ [Next]_vars => MemoryInv'
  <1>1. ASSUME MemoryInv, Next PROVE MemoryInv'
    <2>1. CASE Released
      <3>1. depth > 0 /\ UNCHANGED <<bootable, got, system, name>>
        BY <2>1 DEF Released
      <3>2. PICK value \in {0, 1} : ReleaseTo(depth - 1, value)
        BY <2>1 DEF Released
      <3> QED
        BY <1>1, <3>1, <3>2, ReleaseInv
    <2> QED
      BY <1>1, <2>1, Kinds, LoadInv, ExecuteInv, StartInv, MallocInv, ElsewhereInv
  <1>2. ASSUME MemoryInv, UNCHANGED vars PROVE MemoryInv'
    <2>1. Elsewhere
      BY <1>2 DEF vars, memory, drives, chain, Elsewhere
    <2> QED
      BY <1>2, <2>1, ElsewhereInv
  <1> QED
    BY <1>1, <1>2

-----------------------------------------------------------------------------
(* The theorems.                                                           *)

(* The memory invariant holds of every state the machine reaches.          *)
THEOREM MemoryInvariance == Spec => []MemoryInv
  BY InitInv, NextInv, PTL DEF Spec

(* No program is ever loaded over, or given a buffer in, memory that is in *)
(* use, whatever the sizes: kernel.c:execute and mem.c:malloc.             *)
THEOREM NothingOverlaps == Spec => []AreasApart
  <1>1. MemoryInv => AreasApart
    BY DEF MemoryInv
  <1> QED
    BY <1>1, MemoryInvariance, PTL

(* The shell loads every program at the same address: kernel.c:execute     *)
(* takes back what it took, the rounding of malloc included.               *)
THEOREM ProgramsAtSamePlace == Spec => []SamePlace
  <1>1. MemoryInv => SamePlace
    <2> SUFFICES ASSUME MemoryInv, depth > 0
                 PROVE  \E a \in areas : /\ a.level = 1 /\ a.from = Place(KernelFree)
                                         /\ a.to = a.from + ProgramSize
      BY DEF SamePlace
    <2> DEFINE a == Area(0 + 1, free[0] - ProgramSize, ProgramSize)
    <2>1. Held(0) /\ free[0] - ProgramSize = Place(KernelFree)
      BY DEF MemoryInv, Levels, Shell
    <2>2. a \in areas
      BY <2>1 DEF Held
    <2>3. a.level = 1 /\ a.from = Place(KernelFree) /\ a.to = a.from + ProgramSize
      BY <2>1 DEF Area
    <2> QED
      BY <2>2, <2>3
  <1> QED
    BY <1>1, MemoryInvariance, PTL

(* What execute clears behind a program that has returned, four times the  *)
(* memory it took, holds nothing that is still in use.                     *)
THEOREM ClearedIsDead == Spec => ClearsOnlyDead
  <1>1. MemoryInv /\ [Next]_vars
          => [depth' < depth => \A a \in areas' : Apart(a, ClearedArea)]_vars
    <2> SUFFICES ASSUME MemoryInv, Next, depth' < depth, NEW a \in areas'
                 PROVE  Apart(a, ClearedArea)
      BY DEF vars
    <2>1. depth \in Levels
      BY DEF MemoryInv, Control
    <2>2. Released
      <3>1. Execute => depth' = depth + 1
        BY DEF Execute
      <3>2. Load \/ Start \/ Malloc \/ Elsewhere => depth' = depth
        BY DEF Load, Start, Malloc, Elsewhere
      <3> QED
        BY <2>1, <3>1, <3>2, Kinds DEF Levels
    <2>3. PICK value \in {0, 1} : depth > 0 /\ ReleaseTo(depth - 1, value)
      BY <2>2 DEF Released
    <2>4. a \in areas /\ a.level <= depth - 1
      BY <2>3 DEF ReleaseTo
    <2>5. Held(depth - 1)
      BY <2>1, <2>3 DEF MemoryInv, Levels
    <2>6. a.to <= free[depth - 1] - ProgramSize
      BY <2>4, <2>5 DEF Held
    <2> QED
      BY <2>6 DEF Apart, ClearedArea, Area
  <1> QED
    BY <1>1, MemoryInvariance, PTL DEF Spec, ClearsOnlyDead

-----------------------------------------------------------------------------
(* How lines are taken apart.                                              *)

(* Atoi folds this over the characters.                                    *)
Shift(sum, c) == 10 * sum + Digit(c)

Reading == INSTANCE SequenceFacts WITH Op <- Shift

(* The least number of a set of natural numbers.                           *)
LEMMA MinIs ==
    ASSUME NEW S \in SUBSET Nat, S # {}
    PROVE  Min(S) \in S /\ \A y \in S : Min(S) <= y
  <1>1. \E x \in S : \A y \in S : x <= y
    BY Reading!LeastNatural
  <1> QED
    BY <1>1 DEF Min

LEMMA PartIsText ==
    ASSUME NEW S, NEW text \in Seq(S), NEW m \in Nat \ {0}, NEW k \in Int, k <= Len(text)
    PROVE  SubSeq(text, m, k) \in Seq(S)
  OBVIOUS

(* A piece begins in the text or just behind it.                           *)
LEMMA FromIn ==
    ASSUME NEW S, NEW text \in Seq(S), NEW n \in Int, NEW delim
    PROVE  From(text, n, delim) \in 1 .. Len(text) + 1
  <1> DEFINE nth == {k \in DOMAIN text : /\ text[k] = delim
                                         /\ Cardinality({j \in 1 .. k : text[j] = delim}) = n}
  <1>1. nth \in SUBSET (1 .. Len(text)) /\ Len(text) \in Nat
    OBVIOUS
  <1>2. From(text, n, delim) = IF n = 0 THEN 1 ELSE IF nth = {} THEN Len(text) + 1 ELSE Min(nth) + 1
    BY DEF From
  <1> HIDE DEF nth
  <1>3. CASE n # 0 /\ nth # {}
    <2>1. nth \in SUBSET Nat
      BY <1>1
    <2>2. Min(nth) \in nth
      BY <1>3, <2>1, MinIs
    <2>3. Min(nth) \in 1 .. Len(text)
      BY <1>1, <2>2
    <2>4. Len(text) \in Nat
      OBVIOUS
    <2>5. Min(nth) + 1 \in 1 .. Len(text) + 1
      BY <2>3, <2>4
    <2> QED
      BY <1>2, <1>3, <2>5
  <1>4. Len(text) + 1 \in 1 .. Len(text) + 1 /\ 1 \in 1 .. Len(text) + 1
    OBVIOUS
  <1> QED
    BY <1>2, <1>3, <1>4

LEMMA SpliceIsText ==
    ASSUME NEW S, NEW text \in Seq(S), NEW n \in Int, NEW delim
    PROVE  Splice(text, n, delim) \in Seq(S)
  <1> DEFINE from == From(text, n, delim)
             ends == {k \in from .. Len(text) - 1 : text[k] = delim}
             to   == IF ends = {} THEN Len(text) ELSE Min(ends) - 1
  <1>1. from \in 1 .. Len(text) + 1
    BY FromIn
  <1> HIDE DEF from
  <1>2. ends \in SUBSET Nat /\ \A k \in ends : k <= Len(text)
    BY <1>1
  <1> HIDE DEF ends
  <1>3. to \in Int /\ to <= Len(text)
    <2>1. CASE ends # {}
      <3>1. Min(ends) \in ends
        BY <1>2, <2>1, MinIs
      <3>2. Min(ends) \in Nat
        BY <1>2, <3>1
      <3>3. Min(ends) <= Len(text)
        BY <1>2, <3>1
      <3>4. Len(text) \in Nat
        OBVIOUS
      <3>5. to = Min(ends) - 1
        BY <2>1
      <3> HIDE DEF to
      <3> QED
        BY <3>2, <3>3, <3>4, <3>5
    <2> QED
      BY <2>1
  <1> HIDE DEF to
  <1>4. SubSeq(text, from, to) \in Seq(S)
    BY <1>1, <1>3, PartIsText
  <1> QED
    BY <1>4 DEF Splice, from, ends, to

LEMMA BeforeIsText ==
    ASSUME NEW S, NEW text \in Seq(S), NEW delim
    PROVE  Before(text, delim) \in Seq(S)
  <1> DEFINE ends == {k \in DOMAIN text : text[k] = delim}
  <1>1. ends \in SUBSET Nat /\ \A k \in ends : k <= Len(text)
    OBVIOUS
  <1> HIDE DEF ends
  <1>2. CASE ends # {}
    <2>1. Min(ends) - 1 \in Int /\ Min(ends) - 1 <= Len(text)
      <3>1. Min(ends) \in ends
        BY <1>1, <1>2, MinIs
      <3>2. Min(ends) \in Nat
        BY <1>1, <3>1
      <3>3. Min(ends) <= Len(text)
        BY <1>1, <3>1
      <3>4. Len(text) \in Nat
        OBVIOUS
      <3> QED
        BY <3>2, <3>3, <3>4
    <2>2. SubSeq(text, 1, Min(ends) - 1) \in Seq(S)
      BY <2>1, PartIsText
    <2> QED
      BY <1>2, <2>2 DEF Before, ends
  <1> QED
    BY <1>2 DEF Before, ends

(* Every character has a value and every text stands for a number.         *)
LEMMA DigitIsInt == \A c : Digit(c) \in Int
  <1> SUFFICES ASSUME NEW c PROVE Digit(c) \in Int
    OBVIOUS
  <1> DEFINE value == CHOOSE n \in 1 .. 10 : Digits[n] = c
             other == CHOOSE v \in (-176 .. 79) \ (0 .. 9) : TRUE
             blank == c = " "
  <1>1. Digit(c) = IF c \in Range(Digits) THEN value - 1 ELSE IF blank THEN -16 ELSE other
    BY DEF Digit
  <1>2. c \in Range(Digits) => value \in Int
    <2>1. c \in Range(Digits) => \E n \in 1 .. 10 : Digits[n] = c
      BY DEF Range, Digits
    <2> QED
      BY <2>1
  <1>3. other \in Int
    <2>1. -1 \in (-176 .. 79) \ (0 .. 9)
      OBVIOUS
    <2>2. other \in (-176 .. 79) \ (0 .. 9)
      BY <2>1, Zenon
    <2> HIDE DEF other
    <2> QED
      BY <2>2
  <1> HIDE DEF value, other, blank
  <1> QED
    BY <1>1, <1>2, <1>3

AreSums(sum, base, text, n) ==
    /\ sum[0] = base
    /\ \A k \in 1 .. n : sum[k] = 10 * sum[k - 1] + Digit(text[k])
    /\ Reading!Folded(base, text) = sum[n]

LEMMA ReadingRun ==
    ASSUME NEW base, NEW n \in Nat, NEW text, DOMAIN text = 1 .. n
    PROVE  \E sum : AreSums(sum, base, text, n)
  BY Reading!FoldLeftRun DEF Shift, AreSums

LEMMA AtoiIs ==
    ASSUME NEW text
    PROVE  Atoi(text) = IF text = <<>> THEN -48 ELSE Reading!Folded(0, text)
  BY DEF Atoi, Reading!Folded, Reading!FoldLeft, Reading!MapThenFoldSet, Reading!Max, FoldLeft,
         MapThenFoldSet, Max, Shift

LEMMA AtoiIsInt == ASSUME NEW S, NEW text \in Seq(S) PROVE Atoi(text) \in Int
  <1> DEFINE n == Len(text)
  <1>1. n \in Nat /\ DOMAIN text = 1 .. n
    OBVIOUS
  <1>2. PICK g : AreSums(g, 0, text, n)
    BY <1>1, ReadingRun, Zenon
  <1>3. /\ g[0] = 0
        /\ \A k \in 1 .. n : g[k] = 10 * g[k - 1] + Digit(text[k])
        /\ Atoi(text) = IF text = <<>> THEN -48 ELSE g[n]
    BY <1>2, AtoiIs DEF AreSums
  <1> DEFINE Fine == {k \in Nat : g[k] \in Int}
  <1> HIDE DEF n
  <1>4. 0 \in Fine
    BY <1>3
  <1>5. \A k \in 0 .. n - 1 : k \in Fine => k + 1 \in Fine
    <2> SUFFICES ASSUME NEW k \in 0 .. n - 1, k \in Fine PROVE k + 1 \in Fine
      OBVIOUS
    <2>1. k + 1 \in 1 .. n /\ (k + 1) - 1 = k /\ k + 1 \in Nat /\ g[k] \in Int
      BY <1>1
    <2>2. g[k + 1] = 10 * g[k] + Digit(text[k + 1])
      BY <1>3, <2>1
    <2>3. Digit(text[k + 1]) \in Int
      BY DigitIsInt
    <2> QED
      BY <2>1, <2>2, <2>3
  <1> HIDE DEF Fine
  <1>6. n \in Fine
    <2>1. \A k \in 0 .. n : k \in Fine
      BY <1>1, <1>4, <1>5, Reading!UpTo
    <2> QED
      BY <1>1, <2>1
  <1> QED
    BY <1>3, <1>6 DEF Fine

-----------------------------------------------------------------------------
(* What every variable holds.                                              *)

Values ==
    /\ system \in Nat /\ selected \in Nat /\ drive \in [Levels -> Nat]
    /\ call \in [cmd : Seq(STRING), args : Seq(STRING)]
    /\ name \in [Levels -> Names]
    /\ input \in Seq(STRING) /\ i \in Int /\ cmd \in Seq(STRING)
    /\ status \in [Levels -> 0 .. 2] /\ commands \in 0 .. MaxCommands

LEMMA DrivesAreNat == \A d \in Drives : d \in Nat
  <1>1. Drives \subseteq 0 .. 3
    BY ExecutionAssumption
  <1> QED
    BY <1>1

LEMMA ValuesInit == Init => Values
  <1>1. MaxCommands \in Nat
    BY ExecutionAssumption
  <1>2. <<>> \in Seq(STRING)
    OBVIOUS
  <1> SUFFICES ASSUME Init PROVE Values
    OBVIOUS
  <1>3. call \in [cmd : Seq(STRING), args : Seq(STRING)]
    BY <1>2 DEF Init, NoCall
  <1>4. drive \in [Levels -> Nat] /\ status \in [Levels -> 0 .. 2]
    <2>1. drive = [l \in Levels |-> 0] /\ status = [l \in Levels |-> 0]
      BY DEF Init
    <2>2. 0 \in Nat /\ 0 \in 0 .. 2
      OBVIOUS
    <2> QED
      BY <2>1, <2>2, Zenon
  <1>5. name \in [Levels -> Names]
    BY DEF Init, Names
  <1>6. system = 0 /\ selected = 0 /\ input = <<>> /\ i = 0 /\ cmd = <<>> /\ commands = 0
    BY DEF Init
  <1> QED
    BY <1>1, <1>2, <1>3, <1>4, <1>5, <1>6 DEF Values

(* The pieces the code asks for.                                           *)
LEMMA PieceIsText ==
    ASSUME NEW text \in Seq(STRING), NEW delim
    PROVE  /\ Splice(text, 0, delim) \in Seq(STRING) /\ Splice(text, 1, delim) \in Seq(STRING)
           /\ From(text, 1, delim) \in 1 .. Len(text) + 1
  <1>1. 0 \in Int /\ 1 \in Int
    OBVIOUS
  <1> QED
    BY <1>1, SpliceIsText, FromIn, Zenon

(* A statement is a text and so is what stands between its marks.          *)
LEMMA TakeIsText ==
    ASSUME Values, Take
    PROVE  cmd' \in Seq(STRING)
  <1>1. input \in Seq(STRING) /\ i \in Int
    BY DEF Values
  <1>2. From(input, 1, " ") \in Nat \ {0} /\ Len(input) \in Int /\ Len(input) <= Len(input)
    <2>1. From(input, 1, " ") \in 1 .. Len(input) + 1
      BY <1>1, PieceIsText
    <2>2. Len(input) \in Nat
      BY <1>1
    <2> DEFINE m == Len(input)
               k == From(input, 1, " ")
    <2> HIDE DEF m, k
    <2>3. k \in 1 .. m + 1 /\ m \in Nat
      BY <2>1, <2>2 DEF m, k
    <2>4. k \in Nat \ {0} /\ m \in Int /\ m <= m
      BY <2>3
    <2> QED
      BY <2>4 DEF m, k
  <1>3. SubSeq(input, From(input, 1, " "), Len(input)) \in Seq(STRING)
    BY <1>1, <1>2, PartIsText
  <1>4. Splice(SubSeq(input, From(input, 1, " "), Len(input)), i, "$") \in Seq(STRING)
    BY <1>1, <1>3, SpliceIsText
  <1> QED
    BY <1>4, BeforeIsText DEF Take

LEMMA MarkedIsText ==
    ASSUME Values, NEW mark, Marked(mark)
    PROVE  buff \in Seq(STRING)
  <1>1. cmd \in Seq(STRING) /\ cmd # <<>>
    BY DEF Values, Marked
  <1>2. Tail(cmd) \in Seq(STRING)
    BY <1>1
  <1> QED
    BY <1>2, BeforeIsText DEF buff

(* The jumps leave a number in i.                                          *)
LEMMA JumpIsInt ==
    ASSUME Values, JumpIf \/ Jump
    PROVE  i' \in Int
  <1>1. \A n \in Int, text \in Seq(STRING) : Target(Splice(text, n, ":")) \in Int
    BY SpliceIsText, AtoiIsInt DEF Target
  <1>2. \A text \in Seq(STRING) : Target(text) \in Int
    BY AtoiIsInt DEF Target
  <1>3. buff \in Seq(STRING)
    BY MarkedIsText DEF JumpIf, Jump
  <1>4. i \in Int
    BY DEF Values
  <1>5. CASE JumpIf
    BY <1>1, <1>3, <1>4, <1>5 DEF JumpIf
  <1>6. CASE Jump
    BY <1>2, <1>3, <1>6 DEF Jump
  <1> QED
    BY <1>5, <1>6

LEMMA AskedIsNat ==
    ASSUME Values
    PROVE  Asked \in Nat
  <1>1. call.args \in Seq(STRING)
    BY DEF Values
  <1>2. Atoi(Splice(call.args, 1, " ")) \in Int
    BY <1>1, PieceIsText, AtoiIsInt
  <1> DEFINE number == Atoi(Splice(call.args, 1, " "))
  <1> HIDE DEF number
  <1>3. number \in Int
    BY <1>2 DEF number
  <1>4. number % 256 \in Nat
    BY <1>3
  <1> QED
    BY <1>4 DEF Asked, number

(* Giving memory back changes status, which becomes 0 or 1.                *)
LEMMA ReleaseStatus ==
    ASSUME Values, NEW l \in Levels, NEW value \in {0, 1}, ReleaseTo(l, value)
    PROVE  status' \in [Levels -> 0 .. 2]
  BY DEF Values, ReleaseTo

LEMMA ValuesStep ==
    ASSUME MemoryInv, Values, Next
    PROVE  Values'
  <1> USE DEF Values
  <1>1. /\ depth \in Levels /\ \A d \in Drives : d \in Nat
        /\ Allocated \/ pc = "chain" => depth - 1 \in Levels
    BY DrivesAreNat DEF MemoryInv, Control, Allocated, Levels
  <1>2. CASE Load
    <2>1. Min(bootable) \in Nat
      BY <1>1, <1>2, FirstDrive DEF MemoryInv, Types, Load
    <2> QED
      BY <1>2, <2>1 DEF Load, chain
  <1>3. CASE Halt
    BY <1>3 DEF Halt, drives, chain
  <1>4. ASSUME NEW line \in Commands, Type(line) PROVE Values'
    <2>1. line \in Seq(STRING) /\ MaxCommands \in Nat
      BY <1>4, ExecutionAssumption
    <2>2. Splice(line, 0, " ") \in Seq(STRING)
      BY <2>1, PieceIsText
    <2>3. commands' \in 0 .. MaxCommands
      <3>1. commands < MaxCommands /\ commands' = commands + 1
        BY <1>4 DEF Type
      <3> QED
        BY <2>1, <3>1
    <2> QED
      BY <1>4, <2>1, <2>2, <2>3 DEF Type, chain
  <1>5. CASE Missing
    <2>1. drive' \in [Levels -> Nat] /\ status' \in [Levels -> 0 .. 2]
      <3>1. /\ drive' = [drive EXCEPT ![depth] = system]
            /\ status' = [status EXCEPT ![depth] = 2]
        BY <1>5 DEF Missing, SearchDrive
      <3> QED
        BY <1>1, <3>1
    <2> QED
      BY <1>5, <2>1 DEF Missing, chain
  <1>6. CASE Execute
    <2>1. system \in Drives
      BY <1>6 DEF MemoryInv, Types, Execute
    <2>2. PICK p \in ProgramsOn[system] : call.cmd = <<p>>
      BY <1>6 DEF Execute, Found, SearchDrive
    <2>3. p \in Programs /\ call.cmd[1] = p
      BY <2>1, <2>2, ExecutionAssumption
    <2>4. name' \in [Levels -> Names]
      <3>1. p \in Names
        BY <2>3 DEF Names
      <3> QED
        BY <1>6, <2>3, <3>1 DEF Execute
    <2> QED
      BY <1>6, <2>4 DEF Execute, chain, SearchDrive
  <1>7. CASE Start
    BY <1>7 DEF Start, chain
  <1>8. CASE Malloc
    BY <1>8 DEF Malloc, drives, chain
  <1>9. CASE Work
    <2>1. PICK value \in {0, 1} : ReleaseTo(depth - 1, value)
      BY <1>9 DEF Work
    <2>2. status' \in [Levels -> 0 .. 2]
      <3>1. depth - 1 \in Levels
        BY <1>1, <1>9 DEF Work
      <3> QED
        BY <2>1, <3>1, ReleaseStatus
    <2> QED
      BY <1>9, <2>2 DEF Work, drives, chain
  <1>10. CASE DriveProgram
    <2>1. status' \in [Levels -> 0 .. 2]
      <3>1. depth - 1 \in Levels
        BY <1>1, <1>10 DEF DriveProgram
      <3>2. PICK value \in {0, 1} : ReleaseTo(depth - 1, value)
        <4>1. ReleaseTo(depth - 1, IF Asked \in Drives THEN 0 ELSE 1)
          BY <1>10 DEF DriveProgram
        <4>2. (IF Asked \in Drives THEN 0 ELSE 1) \in {0, 1}
          OBVIOUS
        <4> QED
          BY <4>1, <4>2, Zenon
      <3> QED
        BY <3>1, <3>2, ReleaseStatus
    <2>2. drive' \in [Levels -> Nat] /\ selected' \in Nat
      <3>1. Asked \in Nat
        BY AskedIsNat
      <3> QED
        BY <1>10, <3>1 DEF DriveProgram
    <2> QED
      BY <1>10, <2>1, <2>2 DEF DriveProgram, chain
  <1>11. CASE ChainStart
    <2>1. call.args \in Seq(STRING) /\ <<>> \in Seq(STRING)
      OBVIOUS
    <2>2. status' \in [Levels -> 0 .. 2]
      <3>1. status' = [status EXCEPT ![1] = 0]
        BY <1>11 DEF ChainStart
      <3>2. 0 \in 0 .. 2 /\ status \in [Levels -> 0 .. 2]
        OBVIOUS
      <3> DEFINE T == 0 .. 2
      <3> HIDE DEF T
      <3>3. status' \in [Levels -> T]
        BY <3>1, <3>2 DEF T
      <3> QED
        BY <3>3 DEF T
    <2> QED
      BY <1>11, <2>1, <2>2 DEF ChainStart, drives
  <1>12. CASE Take
    BY <1>12, TakeIsText DEF Take, drives
  <1>13. CASE PrintText
    BY <1>13 DEF PrintText, drives, chain
  <1>14. CASE JumpIf \/ Jump
    <2>1. i' \in Int
      BY <1>14, JumpIsInt
    <2> QED
      BY <1>14, <2>1 DEF JumpIf, Jump, drives
  <1>15. CASE Run
    <2>1. Splice(cmd, 0, " ") \in Seq(STRING)
      BY PieceIsText
    <2> QED
      BY <1>15, <2>1 DEF Run, drives, chain
  <1>16. CASE Next1
    BY <1>16 DEF Next1, drives, Increment
  <1>17. CASE ChainEnd
    <2>1. depth - 1 \in Levels
      BY <1>1, <1>17 DEF ChainEnd, MemoryInv, Control, Levels
    <2>2. status' \in [Levels -> 0 .. 2]
      BY <1>17, <2>1, ReleaseStatus DEF ChainEnd
    <2> QED
      BY <1>17, <2>2 DEF ChainEnd, drives, chain
  <1> QED
    BY <1>2, <1>3, <1>4, <1>5, <1>6, <1>7, <1>8, <1>9, <1>10, <1>11, <1>12, <1>13, <1>14, <1>15,
       <1>16, <1>17 DEF Next, Step, Chain

(* No line that can be typed, whatever number or blank it holds, leaves a  *)
(* variable without a value of its type: strings.c and chain.c take pieces *)
(* of it by indexes they do not check.                                     *)
THEOREM TypeCorrect == Spec => []TypeOK
  <1>1. MemoryInv /\ Values => TypeOK
    BY DEF MemoryInv, Control, Types, Values, TypeOK
  <1>2. MemoryInv /\ Values /\ [Next]_vars => Values'
    <2>1. ASSUME Values, UNCHANGED vars PROVE Values'
      BY <2>1 DEF Values, vars
    <2> QED
      BY <2>1, ValuesStep
  <1> QED
    BY <1>1, <1>2, ValuesInit, MemoryInvariance, PTL DEF Spec

-----------------------------------------------------------------------------
(* How far memory reaches.                                                 *)

PlaceNext(at, size) == Place(at) + size

Placing == INSTANCE SequenceFacts WITH Op <- PlaceNext

(* end[k] is where the k-th of these n buffers ends.                       *)
AreEnds(end, from, sizes, n) ==
    /\ end[0] = from
    /\ \A k \in 1 .. n : end[k] = Place(end[k - 1]) + sizes[k]
    /\ Reach(from, sizes) = end[n]

Ends(from, sizes) == CHOOSE end : AreEnds(end, from, sizes, Len(sizes))

LEMMA ReachRun ==
    ASSUME NEW from, NEW n \in Nat, NEW sizes, DOMAIN sizes = 1 .. n
    PROVE  \E end : AreEnds(end, from, sizes, n)
  <1>1. Placing!Folded(from, sizes) = Reach(from, sizes)
    BY DEF Placing!Folded, Placing!FoldLeft, Placing!MapThenFoldSet, Placing!Max, Reach,
           FoldLeft, MapThenFoldSet, Max, PlaceNext
  <1> QED
    BY <1>1, Placing!FoldLeftRun DEF PlaceNext, AreEnds

LEMMA EndsAre ==
    ASSUME NEW from, NEW sizes \in Seq(Nat)
    PROVE  AreEnds(Ends(from, sizes), from, sizes, Len(sizes))
  <1>1. Len(sizes) \in Nat /\ DOMAIN sizes = 1 .. Len(sizes)
    OBVIOUS
  <1>2. \E end : AreEnds(end, from, sizes, Len(sizes))
    BY <1>1, ReachRun, Zenon
  <1> QED
    BY <1>2, Zenon DEF Ends

(* Every buffer ends above the one before it, and the last where Reach says*)
LEMMA EndsRise ==
    ASSUME NEW from \in Nat, from >= Page, NEW sizes \in Seq(Nat)
    PROVE  \A k \in 0 .. Len(sizes) :
              /\ Ends(from, sizes)[k] \in Nat /\ Ends(from, sizes)[k] >= Page
              /\ Ends(from, sizes)[k] <= Reach(from, sizes)
  <1> DEFINE n   == Len(sizes)
             end == Ends(from, sizes)
             Up   == {k \in Nat : end[k] \in Nat /\ end[k] >= Page}
             Down == {k \in Nat : end[n - k] <= end[n]}
  <1>1. n \in Nat /\ \A k \in 1 .. n : sizes[k] \in Nat
    OBVIOUS
  <1>2. /\ end[0] = from /\ Reach(from, sizes) = end[n]
        /\ \A k \in 1 .. n : end[k] = Place(end[k - 1]) + sizes[k]
    BY EndsAre DEF AreEnds
  <1> HIDE DEF n, end
  <1>3. ASSUME NEW k \in 0 .. n - 1, end[k] \in Nat, end[k] >= Page
        PROVE  end[k + 1] \in Nat /\ end[k + 1] >= end[k]
    <2>1. k + 1 \in 1 .. n /\ (k + 1) - 1 = k
      BY <1>1
    <2>2. end[k + 1] = Place(end[k]) + sizes[k + 1] /\ sizes[k + 1] \in Nat
      BY <1>1, <1>2, <2>1
    <2>3. Place(end[k]) \in Nat /\ Place(end[k]) >= end[k]
      BY <1>3, PlaceFacts
    <2> QED
      BY <1>3, <2>2, <2>3
  <1>4. \A k \in 0 .. n : k \in Up
    <2>1. 0 \in Up
      BY <1>2
    <2>2. ASSUME NEW k \in 0 .. n - 1, k \in Up PROVE k + 1 \in Up
      <3>1. end[k] \in Nat /\ end[k] >= Page /\ k + 1 \in Nat
        BY <1>1, <2>2
      <3>2. end[k + 1] \in Nat /\ end[k + 1] >= end[k]
        BY <1>3, <3>1
      <3>3. end[k + 1] >= Page
        BY <3>1, <3>2 DEF Page
      <3> QED
        BY <3>1, <3>2, <3>3
    <2> HIDE DEF Up
    <2> QED
      BY <1>1, <2>1, <2>2, Placing!UpTo
  <1>5. \A k \in 0 .. n : k \in Down
    <2>1. 0 \in Down
      <3>1. n - 0 = n /\ end[n] \in Nat
        BY <1>1, <1>4
      <3> QED
        BY <3>1
    <2>2. ASSUME NEW k \in 0 .. n - 1, k \in Down PROVE k + 1 \in Down
      <3> DEFINE j == n - (k + 1)
      <3>1. j \in 0 .. n - 1 /\ j \in 0 .. n /\ j + 1 = n - k /\ k + 1 \in Nat /\ n - k \in 0 .. n
            /\ n \in 0 .. n
        BY <1>1
      <3> HIDE DEF j
      <3>2. end[j] \in Nat /\ end[j] >= Page /\ end[n - k] \in Nat /\ end[n] \in Nat
        BY <1>4, <3>1
      <3>3. end[j + 1] >= end[j]
        BY <1>3, <3>1, <3>2
      <3>4. end[n - k] <= end[n]
        BY <2>2
      <3>5. end[j] <= end[n]
        BY <3>1, <3>2, <3>3, <3>4
      <3> QED
        BY <3>1, <3>5 DEF j
    <2> HIDE DEF Down
    <2> QED
      BY <1>1, <2>1, <2>2, Placing!UpTo
  <1>6. ASSUME NEW k \in 0 .. n
        PROVE  end[k] \in Nat /\ end[k] >= Page /\ end[k] <= Reach(from, sizes)
    <2>1. n - k \in 0 .. n /\ n - (n - k) = k
      BY <1>1
    <2>2. end[n - (n - k)] <= end[n]
      BY <1>5, <2>1
    <2> QED
      BY <1>2, <1>4, <2>1, <2>2
  <1> QED
    BY <1>6 DEF n, end

(* All that is in use ends below the stack; a program of chain lies where  *)
(* the first one would, and what the running program is to allocate next   *)
(* begins where its last buffer ended.                                     *)
StackInv ==
    /\ \A a \in areas : a.to + StackSize <= StackTop
    /\ depth = 2 => free[1] - ProgramSize = ChainPlace
    /\ depth = 1 /\ pc \in {"execute", "chain", "statement", "next"} => Place(free[1]) = ChainPlace
    /\ pc = "start" => got = 0
    /\ pc = "alloc" /\ Buffers[name[depth]] # <<>> =>
          /\ got <= Len(Buffers[name[depth]])
          /\ free[depth] = Ends(free[depth - 1], Buffers[name[depth]])[got]

LEMMA StackSizes == StackTop \in Nat /\ StackSize \in Nat /\ Cleared \in Nat
  BY ExecutionAssumption

(* The running program lies where Fits looks at.                           *)
LEMMA Running ==
    ASSUME MemoryInv, StackInv, depth > 0
    PROVE  /\ depth - 1 \in Levels /\ free[depth - 1] \in Nat /\ free[depth - 1] >= Page
           /\ free[depth - 1] - ProgramSize \in {ProgramPlace, ChainPlace}
           /\ (free[depth - 1] - ProgramSize) + ProgramSize = free[depth - 1]
  <1>1. depth \in {1, 2} /\ depth - 1 \in Levels /\ depth - 1 < depth
    BY DEF MemoryInv, Control, Levels
  <1>2. free[depth - 1] \in Nat /\ Held(depth - 1)
    BY <1>1 DEF MemoryInv, Types
  <1>3. free[depth - 1] - ProgramSize \in {ProgramPlace, ChainPlace}
    BY <1>1 DEF MemoryInv, Shell, StackInv, ProgramPlace
  <1> QED
    BY <1>1, <1>2, <1>3, Sizes DEF Held, Page

LEMMA StackInit == Init => StackInv
  <1>1. Init => pc = "loader" /\ depth = 0 /\ areas = {}
    BY DEF Init
  <1> QED
    BY <1>1 DEF StackInv

LEMMA LoadStack ==
    ASSUME Fits, MemoryInv, StackInv, Load
    PROVE  StackInv'
  <1>1. depth' = 0 /\ pc' = "prompt" /\ areas' = {Area(0, EnvPlace, EnvSize), Area(0, KernelPlace, KernelSize)}
    BY DEF Load, MemoryInv, Control
  <1>2. \A a \in areas' : a.to <= KernelFree /\ a.to \in Nat
    BY <1>1, Sizes DEF Area, KernelFree
  <1>3. KernelFree + StackSize <= StackTop
    BY DEF Fits
  <1>4. \A a \in areas' : a.to + StackSize <= StackTop
    BY <1>2, <1>3, Sizes, StackSizes
  <1> QED
    BY <1>1, <1>4 DEF StackInv

LEMMA ExecuteStack ==
    ASSUME Fits, MemoryInv, StackInv, Execute
    PROVE  StackInv'
  <1> DEFINE at == Place(free[depth])
             p  == call.cmd[1]
  <1>1. depth \in {0, 1} /\ depth' = depth + 1 /\ pc' = "start" /\ pc = "execute" /\ got' = 0
    BY DEF MemoryInv, Control, Execute, Levels
  <1>2. p \in Programs
    <2>1. system \in Drives
      BY <1>1 DEF MemoryInv, Types
    <2>2. PICK q \in ProgramsOn[system] : call.cmd = <<q>>
      BY DEF Execute, Found, SearchDrive
    <2> QED
      BY <2>1, <2>2, ExecutionAssumption
  <1>3. at \in Nat /\ at >= 2 * Page
    <2>1. free[depth] \in Nat /\ free[depth] >= Page
      BY <1>1 DEF MemoryInv, Types, Ready, Owns, Levels
    <2> QED
      BY <2>1, PlaceFacts
  <1>4. at \in {ProgramPlace, ChainPlace} /\ (depth = 1 => at = ChainPlace)
    BY <1>1 DEF MemoryInv, Shell, StackInv, ProgramPlace
  <1>5. /\ free' = [free EXCEPT ![depth] = at + ProgramSize, ![depth + 1] = FirstFree]
        /\ areas' = areas \union {Area(depth + 1, at, ProgramSize)}
    BY DEF Execute
  <1> HIDE DEF at, p
  <1>6. free'[depth] - ProgramSize = at
    BY <1>1, <1>3, <1>5, Sizes DEF MemoryInv, Types, Levels
  <1>7. (at + ProgramSize) + StackSize <= StackTop
    <2>1. Reach(at + ProgramSize, Buffers[p]) + StackSize <= StackTop
      BY <1>2, <1>4 DEF Fits
    <2>2. at + ProgramSize \in Nat /\ at + ProgramSize >= Page
      BY <1>3, Sizes DEF Page
    <2>3. Buffers[p] \in Seq(Nat)
      BY <1>2, ExecutionAssumption
    <2> DEFINE from  == at + ProgramSize
               sizes == Buffers[p]
    <2>4. /\ \A k \in 0 .. Len(sizes) : Ends(from, sizes)[k] <= Reach(from, sizes)
          /\ \A k \in 0 .. Len(sizes) : Ends(from, sizes)[k] \in Nat
      BY <2>2, <2>3, EndsRise
    <2>5. /\ Ends(from, sizes)[0] = from
          /\ Reach(from, sizes) = Ends(from, sizes)[Len(sizes)]
      BY <2>3, EndsAre DEF AreEnds
    <2>6. Len(sizes) \in Nat /\ 0 \in 0 .. Len(sizes) /\ Len(sizes) \in 0 .. Len(sizes)
      BY <2>3
    <2> HIDE DEF from, sizes
    <2>7. from <= Reach(from, sizes) /\ Reach(from, sizes) \in Nat
      BY <2>4, <2>5, <2>6
    <2>8. from \in Nat /\ Reach(from, sizes) + StackSize <= StackTop
      BY <2>1, <2>2 DEF from, sizes
    <2>9. from + StackSize <= StackTop
      BY <2>7, <2>8, StackSizes
    <2> QED
      BY <2>9 DEF from
  <1>8. ASSUME NEW a \in areas' PROVE a.to + StackSize <= StackTop
    <2>1. CASE a \in areas
      BY <2>1 DEF StackInv
    <2>2. CASE a = Area(depth + 1, at, ProgramSize)
      BY <1>7, <2>2 DEF Area
    <2> QED
      BY <1>5, <2>1, <2>2
  <1>9. depth' = 2 => free'[1] - ProgramSize = ChainPlace
    BY <1>1, <1>4, <1>6
  <1> QED
    BY <1>1, <1>8, <1>9 DEF StackInv

LEMMA StartStack ==
    ASSUME MemoryInv, StackInv, Start
    PROVE  StackInv'
  <1>1. /\ depth \in {1, 2} /\ depth' = depth /\ pc' = "alloc" /\ areas' = areas
        /\ got' = got /\ got = 0 /\ name' = name /\ envfree = free[depth - 1]
    BY DEF MemoryInv, Control, Start, StackInv, Levels
  <1>2. \A l \in Levels : l < depth => free'[l] = free[l]
    BY <1>1 DEF Start, MemoryInv, Types, Levels
  <1>3. depth' = 2 => free'[1] - ProgramSize = ChainPlace
    BY <1>1, <1>2 DEF StackInv, Levels
  <1>4. ASSUME Buffers[name[depth]] # <<>>
        PROVE  /\ got <= Len(Buffers[name[depth]])
               /\ free'[depth] = Ends(free'[depth - 1], Buffers[name[depth]])[got]
    <2>1. Buffers[name[depth]] \in Seq(Nat)
      BY ExecutionAssumption DEF MemoryInv, Types, Start
    <2>2. free'[depth] = free[depth - 1] /\ free'[depth - 1] = free[depth - 1]
      BY <1>1, <1>2, <1>4 DEF Start, MemoryInv, Types, Levels
    <2>3. Ends(free[depth - 1], Buffers[name[depth]])[0] = free[depth - 1]
      BY <2>1, EndsAre DEF AreEnds
    <2>4. 0 <= Len(Buffers[name[depth]])
      BY <2>1
    <2> QED
      BY <1>1, <2>2, <2>3, <2>4
  <1> QED
    BY <1>1, <1>3, <1>4 DEF StackInv

LEMMA MallocStack ==
    ASSUME Fits, MemoryInv, StackInv, Malloc
    PROVE  StackInv'
  <1> DEFINE sizes == Buffers[name[depth]]
             from  == free[depth - 1]
             at    == Place(free[depth])
  <1>1. /\ depth \in {1, 2} /\ depth' = depth /\ pc = "alloc" /\ pc' = "alloc"
        /\ name' = name /\ got' = got + 1 /\ got < Len(sizes)
    BY DEF MemoryInv, Control, Malloc, Levels
  <1>2. name[depth] \in Programs /\ sizes \in Seq(Nat) /\ got \in Nat
    BY <1>1, ExecutionAssumption DEF MemoryInv, Types
  <1>3. /\ sizes # <<>> /\ got \in 0 .. Len(sizes) /\ got + 1 \in 1 .. Len(sizes)
        /\ got + 1 \in 0 .. Len(sizes) /\ (got + 1) - 1 = got /\ Len(sizes) \in Nat
    BY <1>1, <1>2
  <1>4. /\ free' = [free EXCEPT ![depth] = at + sizes[got + 1]]
        /\ areas' = areas \union {Area(depth, at, sizes[got + 1])}
    BY DEF Malloc
  <1>5. /\ depth - 1 \in Levels /\ from \in Nat /\ from >= Page
        /\ from - ProgramSize \in {ProgramPlace, ChainPlace} /\ (from - ProgramSize) + ProgramSize = from
    BY <1>1, Running
  <1>6. free[depth] = Ends(from, sizes)[got]
    BY <1>1, <1>3 DEF StackInv
  <1> HIDE DEF sizes, from
  <1>7. /\ Ends(from, sizes)[got + 1] = at + sizes[got + 1]
        /\ Reach(from, sizes) = Ends(from, sizes)[Len(sizes)]
    BY <1>2, <1>3, <1>6, EndsAre DEF AreEnds
  <1>8. /\ Ends(from, sizes)[got + 1] \in Nat /\ Ends(from, sizes)[got + 1] <= Reach(from, sizes)
        /\ Ends(from, sizes)[Len(sizes)] \in Nat
    <2>1. Len(sizes) \in 0 .. Len(sizes)
      BY <1>3
    <2> QED
      BY <1>2, <1>3, <1>5, <2>1, EndsRise
  <1>9. Reach(from, sizes) + StackSize <= StackTop
    <2>1. Reach((from - ProgramSize) + ProgramSize, sizes) + StackSize <= StackTop
      BY <1>2, <1>5 DEF Fits, sizes
    <2> QED
      BY <1>5, <2>1
  <1> HIDE DEF at
  <1>10. (at + sizes[got + 1]) + StackSize <= StackTop
    BY <1>7, <1>8, <1>9, StackSizes
  <1>11. ASSUME NEW a \in areas' PROVE a.to + StackSize <= StackTop
    <2>1. CASE a \in areas
      BY <2>1 DEF StackInv
    <2>2. CASE a = Area(depth, at, sizes[got + 1])
      BY <1>10, <2>2 DEF Area
    <2> QED
      BY <1>4, <2>1, <2>2
  <1>12. free'[depth] = at + sizes[got + 1] /\ free'[depth - 1] = from
    BY <1>1, <1>4, <1>5 DEF MemoryInv, Types, Levels, from
  <1>13. depth' = 2 => free'[1] - ProgramSize = ChainPlace
    BY <1>1, <1>12 DEF StackInv, from
  <1> QED
    BY <1>1, <1>3, <1>7, <1>11, <1>12, <1>13 DEF StackInv, sizes

LEMMA ReleaseStack ==
    ASSUME MemoryInv, StackInv, Released
    PROVE  StackInv'
  <1> DEFINE l  == depth - 1
             at == free[l] - ProgramSize
  <1>1. PICK value \in {0, 1} : depth > 0 /\ ReleaseTo(depth - 1, value)
    BY DEF Released
  <1>2. l \in {0, 1} /\ l \in Levels /\ depth' = l /\ depth = l + 1 /\ pc' = Caller(l) /\ Held(l)
    BY <1>1 DEF MemoryInv, Control, Levels, ReleaseTo
  <1>3. pc' \in {"prompt", "next"}
    BY <1>2 DEF Caller
  <1>4. at \in Nat /\ at >= 2 * Page /\ at % Page = 0 /\ free[l] \in Nat
    BY <1>2 DEF Held, MemoryInv, Types
  <1>5. free'[l] = at - Page
    <2>1. free' = [free EXCEPT ![l] = Lowered(@)]
      BY <1>1 DEF ReleaseTo
    <2>2. Lowered(free[l]) = at - Page
      BY <1>4, Sizes DEF Lowered, Page
    <2> QED
      BY <1>2, <2>1, <2>2 DEF MemoryInv, Types
  <1>6. l = 1 => Place(free'[1]) = ChainPlace
    <2>1. Place(at - Page) = at
      BY <1>4, PlaceBack
    <2> QED
      BY <1>2, <1>5, <2>1 DEF StackInv
  <1>7. \A a \in areas' : a.to + StackSize <= StackTop
    BY <1>1 DEF ReleaseTo, StackInv
  <1> QED
    BY <1>2, <1>3, <1>6, <1>7 DEF StackInv

(* When chain has its buffers, what it runs goes behind the last of them.  *)
LEMMA ElsewhereStack ==
    ASSUME MemoryInv, StackInv, Elsewhere
    PROVE  StackInv'
  <1>1. /\ depth' = depth /\ free' = free /\ areas' = areas /\ got' = got /\ name' = name
    BY DEF Elsewhere
  <1>2. CASE depth = 1 /\ Allocated /\ name[1] = "chain" /\ pc' = "chain"
    <2> DEFINE sizes == Buffers["chain"]
    <2>1. pc = "alloc" /\ got = Len(sizes) /\ "chain" \in Programs
      BY <1>2 DEF Allocated, MemoryInv, Types
    <2>2. sizes # <<>> /\ sizes \in Seq(Nat)
      BY <2>1, ExecutionAssumption
    <2>3. free[1] = Ends(free[0], sizes)[Len(sizes)]
      BY <1>2, <2>1, <2>2 DEF StackInv
    <2>4. free[0] = ProgramPlace + ProgramSize
      <3>1. free[0] - ProgramSize = ProgramPlace /\ free[0] \in Nat
        BY <1>2 DEF MemoryInv, Shell, ProgramPlace, Types, Levels
      <3> QED
        BY <3>1, Sizes
    <2>5. free[1] = Reach(ProgramPlace + ProgramSize, sizes)
      BY <2>2, <2>3, <2>4, EndsAre DEF AreEnds
    <2>6. Place(free[1]) = ChainPlace
      BY <2>5 DEF ChainPlace
    <2> QED
      BY <1>1, <1>2, <2>6 DEF StackInv
  <1>3. CASE ~(depth = 1 /\ Allocated /\ name[1] = "chain" /\ pc' = "chain")
    <2>1. /\ pc' = "start" => pc = "start"
          /\ pc' = "alloc" => pc = "alloc"
          /\ depth = 1 /\ pc' \in {"execute", "chain", "statement", "next"}
                => pc \in {"execute", "chain", "statement", "next"}
      BY <1>3 DEF Elsewhere
    <2> QED
      BY <1>1, <2>1 DEF StackInv
  <1> QED
    BY <1>2, <1>3

(* Memory does not creep: however many commands are typed and statements   *)
(* chained, everything a program is given, and everything execute clears   *)
(* behind one, ends below the stack, if that is so of each program loaded  *)
(* once by the shell and once by chain.                                    *)
THEOREM StaysBelowStack ==
    ASSUME Fits
    PROVE  Spec => []BelowStack
  <1>1. MemoryInv /\ StackInv /\ [Next]_vars => StackInv'
    <2>1. ASSUME MemoryInv, StackInv, UNCHANGED vars PROVE Elsewhere
      BY <2>1 DEF vars, memory, drives, chain, Elsewhere
    <2> QED
      BY <2>1, Kinds, LoadStack, ExecuteStack, StartStack, MallocStack, ReleaseStack, ElsewhereStack
  <1>2. MemoryInv /\ StackInv => BelowStack
    <2> SUFFICES ASSUME MemoryInv, StackInv, depth > 0
                 PROVE  free[depth - 1] - ProgramSize + Cleared + StackSize <= StackTop
      BY DEF BelowStack, StackInv
    <2>1. free[depth - 1] - ProgramSize \in {ProgramPlace, ChainPlace}
      BY Running
    <2> QED
      BY <2>1 DEF Fits
  <1> QED
    BY <1>1, <1>2, StackInit, MemoryInvariance, PTL DEF Spec

-----------------------------------------------------------------------------
(* Texts put together.                                                     *)

LEMMA Concat ==
    ASSUME NEW S, NEW a \in Seq(S), NEW b \in Seq(S)
    PROVE  /\ a \o b \in Seq(S) /\ Len(a \o b) = Len(a) + Len(b)
           /\ \A k \in 1 .. Len(a) : (a \o b)[k] = a[k]
           /\ \A k \in 1 .. Len(b) : (a \o b)[Len(a) + k] = b[k]
  <1> DEFINE ab == a \o b
             m  == Len(a)
             n  == Len(b)
  <1>1. m \in Nat /\ n \in Nat
    OBVIOUS
  <1>2. /\ ab \in Seq(S) /\ Len(ab) = m + n
        /\ \A k \in 1 .. m + n : ab[k] = IF k <= m THEN a[k] ELSE b[k - m]
    BY ConcatProperties, Zenon
  <1> HIDE DEF ab, m, n
  <1>3. \A k \in 1 .. m : ab[k] = a[k]
    <2>1. \A k \in 1 .. m : k \in 1 .. m + n /\ k <= m
      BY <1>1
    <2> QED
      BY <1>2, <2>1
  <1>4. ASSUME NEW k \in 1 .. n PROVE ab[m + k] = b[k]
    <2>1. m + k \in 1 .. m + n /\ ~(m + k <= m) /\ (m + k) - m = k
      BY <1>1
    <2> QED
      BY <1>2, <2>1
  <1> QED
    BY <1>2, <1>3, <1>4 DEF ab, m, n

(* One token behind a text.                                                *)
LEMMA OneMore ==
    ASSUME NEW S, NEW a \in Seq(S), NEW x \in S
    PROVE  /\ a \o <<x>> \in Seq(S) /\ Len(a \o <<x>>) = Len(a) + 1
           /\ \A k \in 1 .. Len(a) : (a \o <<x>>)[k] = a[k]
           /\ (a \o <<x>>)[Len(a) + 1] = x
  <1>1. <<x>> \in Seq(S) /\ Len(<<x>>) = 1 /\ 1 \in 1 .. 1 /\ <<x>>[1] = x
    OBVIOUS
  <1> DEFINE b == <<x>>
  <1> HIDE DEF b
  <1>2. /\ a \o b \in Seq(S) /\ Len(a \o b) = Len(a) + Len(b)
        /\ \A k \in 1 .. Len(a) : (a \o b)[k] = a[k]
        /\ \A k \in 1 .. Len(b) : (a \o b)[Len(a) + k] = b[k]
    BY <1>1, Concat DEF b
  <1>3. Len(b) = 1 /\ b[1] = x /\ 1 \in 1 .. Len(b)
    BY <1>1 DEF b
  <1>4. (a \o b)[Len(a) + 1] = b[1]
    BY <1>2, <1>3
  <1> QED
    BY <1>2, <1>3, <1>4 DEF b

(* A text is told by its tokens.                                           *)
LEMMA SameText ==
    ASSUME NEW S, NEW a \in Seq(S), NEW b \in Seq(S), Len(a) = Len(b),
           \A k \in 1 .. Len(a) : a[k] = b[k]
    PROVE  a = b
  BY SeqEqual, Zenon

-----------------------------------------------------------------------------
(* Numbers.                                                                *)

DigitSet == {Digits[k] : k \in 1 .. 10}

DecimalOf(f, n) ==
    IF n < 10 THEN <<Digits[n + 1]>> ELSE f[n \div 10] \o <<Digits[(n % 10) + 1]>>

Writing == INSTANCE SequenceFacts WITH Op <- DecimalOf

LEMMA Tenth ==
    ASSUME NEW n \in Nat
    PROVE  /\ n \div 10 \in Nat /\ n % 10 \in 0 .. 9 /\ n = 10 * (n \div 10) + (n % 10)
           /\ n >= 10 => n \div 10 \in 0 .. n - 1
  <1>1. n \div 10 \in Nat
    OBVIOUS
  <1>2. n % 10 \in 0 .. 9
    OBVIOUS
  <1>3. n = 10 * (n \div 10) + (n % 10)
    OBVIOUS
  <1> QED
    BY <1>1, <1>2, <1>3

LEMMA DecimalIs == \A n \in Nat : Decimal[n] = DecimalOf(Decimal, n)
  <1>1. ASSUME NEW n \in Nat, NEW g, NEW h, \A k \in 0 .. n - 1 : g[k] = h[k]
        PROVE  DecimalOf(g, n) = DecimalOf(h, n)
    <2>1. CASE n < 10
      BY <2>1 DEF DecimalOf
    <2>2. CASE ~(n < 10)
      <3>1. n \div 10 \in 0 .. n - 1
        BY <2>2, Tenth
      <3>2. g[n \div 10] = h[n \div 10]
        BY <1>1, <3>1
      <3> QED
        BY <2>2, <3>2 DEF DecimalOf
    <2> QED
      BY <2>1, <2>2
  <1>2. \E f : f = [n \in Nat |-> DecimalOf(f, n)]
    BY <1>1, Writing!RecursionOnNat, Zenon
  <1>3. Decimal = CHOOSE f : f = [n \in Nat |-> DecimalOf(f, n)]
    BY DEF Decimal, DecimalOf
  <1>4. Decimal = [n \in Nat |-> DecimalOf(Decimal, n)]
    BY <1>2, <1>3, Zenon
  <1> QED
    BY <1>4

(* The digits have the values 0 to 9.                                      *)
LEMMA DigitValues == \A k \in 0 .. 9 : Digit(Digits[k + 1]) = k /\ Digits[k + 1] \in DigitSet
  <1> SUFFICES ASSUME NEW k \in 0 .. 9
               PROVE  Digit(Digits[k + 1]) = k /\ Digits[k + 1] \in DigitSet
    OBVIOUS
  <1>1. k + 1 \in 1 .. 10 /\ (k + 1) - 1 = k
    OBVIOUS
  <1>2. \A m, n \in 1 .. 10 : Digits[m] = Digits[n] => m = n
    BY DEF Digits
  <1>3. Digits[k + 1] \in Range(Digits)
    <2>1. DOMAIN Digits = 1 .. 10
      BY DEF Digits
    <2> QED
      BY <1>1, <2>1 DEF Range
  <1> DEFINE value == CHOOSE n \in 1 .. 10 : Digits[n] = Digits[k + 1]
  <1>4. value = k + 1
    BY <1>1, <1>2
  <1> HIDE DEF value
  <1>5. Digit(Digits[k + 1]) = value - 1
    BY <1>3 DEF Digit, value
  <1> QED
    BY <1>1, <1>4, <1>5 DEF DigitSet

(* The number that a text with one more digit stands for.                  *)
LEMMA AtoiMore ==
    ASSUME NEW S, NEW text \in Seq(S), text # <<>>, NEW d \in S
    PROVE  Atoi(text \o <<d>>) = 10 * Atoi(text) + Digit(d)
  <1> DEFINE n    == Len(text)
             more == text \o <<d>>
  <1>1. n \in Nat /\ DOMAIN text = 1 .. n /\ n # 0
    OBVIOUS
  <1>2. more \in Seq(S) /\ Len(more) = n + 1 /\ (\A k \in 1 .. n : more[k] = text[k]) /\ more[n + 1] = d
    BY OneMore
  <1> HIDE DEF n, more
  <1>3. n + 1 \in Nat /\ DOMAIN more = 1 .. n + 1 /\ more # <<>> /\ n + 1 \in 1 .. n + 1
        /\ (n + 1) - 1 = n /\ \A k \in 1 .. n : k \in 1 .. n + 1
    BY <1>1, <1>2
  <1>4. PICK f : AreSums(f, 0, text, n)
    BY <1>1, ReadingRun, Zenon
  <1>5. PICK g : AreSums(g, 0, more, n + 1)
    BY <1>3, ReadingRun, Zenon
  <1>6. /\ f[0] = 0 /\ Atoi(text) = f[n]
        /\ \A k \in 1 .. n : f[k] = 10 * f[k - 1] + Digit(text[k])
    BY <1>4, AtoiIs DEF AreSums
  <1>7. /\ g[0] = 0 /\ Atoi(more) = g[n + 1]
        /\ \A k \in 1 .. n + 1 : g[k] = 10 * g[k - 1] + Digit(more[k])
    BY <1>3, <1>5, AtoiIs DEF AreSums
  <1> DEFINE Same == {k \in Nat : g[k] = f[k]}
  <1>8. \A k \in 0 .. n : k \in Same
    <2>1. 0 \in Same
      BY <1>6, <1>7
    <2>2. ASSUME NEW k \in 0 .. n - 1, k \in Same PROVE k + 1 \in Same
      <3>1. k + 1 \in 1 .. n /\ k + 1 \in 1 .. n + 1 /\ (k + 1) - 1 = k /\ k + 1 \in Nat
        BY <1>1
      <3>2. g[k] = f[k]
        BY <2>2
      <3>3. f[k + 1] = 10 * f[k] + Digit(text[k + 1])
        BY <1>6, <3>1
      <3>4. g[k + 1] = 10 * g[k] + Digit(more[k + 1])
        BY <1>7, <3>1
      <3>5. more[k + 1] = text[k + 1]
        BY <1>2, <3>1
      <3> QED
        BY <3>1, <3>2, <3>3, <3>4, <3>5
    <2> HIDE DEF Same
    <2> QED
      BY <1>1, <2>1, <2>2, Reading!UpTo
  <1>9. g[n] = f[n]
    BY <1>1, <1>8
  <1>10. g[n + 1] = 10 * g[(n + 1) - 1] + Digit(more[n + 1])
    BY <1>3, <1>7
  <1> QED
    BY <1>2, <1>3, <1>6, <1>7, <1>9, <1>10 DEF more

(* A text of one digit.                                                    *)
LEMMA AtoiOne == \A d : Atoi(<<d>>) = Digit(d)
  <1> SUFFICES ASSUME NEW d PROVE Atoi(<<d>>) = Digit(d)
    OBVIOUS
  <1> DEFINE one == <<d>>
  <1>1. 1 \in Nat /\ DOMAIN one = 1 .. 1 /\ one # <<>> /\ one[1] = d
    OBVIOUS
  <1> HIDE DEF one
  <1>2. PICK g : AreSums(g, 0, one, 1)
    BY <1>1, ReadingRun, Zenon
  <1>3. g[0] = 0 /\ g[1] = 10 * g[0] + Digit(one[1]) /\ Atoi(one) = g[1]
    <2>1. 1 \in 1 .. 1 /\ 1 - 1 = 0
      OBVIOUS
    <2> QED
      BY <1>1, <1>2, <2>1, AtoiIs DEF AreSums
  <1>4. Digit(d) \in Int
    BY DigitIsInt
  <1>5. Atoi(one) = Digit(d)
    BY <1>1, <1>3, <1>4
  <1> QED
    BY <1>5 DEF one

(* Whatever number a script holds, atoi reads it back.                     *)
LEMMA DecimalRead ==
    \A n \in Nat : /\ Decimal[n] \in Seq(DigitSet) /\ Len(Decimal[n]) >= 1
                   /\ Atoi(Decimal[n]) = n
  <1> DEFINE Right(n) == /\ Decimal[n] \in Seq(DigitSet) /\ Len(Decimal[n]) >= 1
                         /\ Atoi(Decimal[n]) = n
             Wrong    == {n \in Nat : ~Right(n)}
  <1>1. ASSUME NEW n \in Nat, \A m \in 0 .. n - 1 : Right(m)
        PROVE  Right(n)
    <2>1. CASE n < 10
      <3>1. n \in 0 .. 9
        BY <2>1
      <3>2. Digit(Digits[n + 1]) = n /\ Digits[n + 1] \in DigitSet
        BY <3>1, DigitValues
      <3>3. Decimal[n] = <<Digits[n + 1]>>
        BY <2>1, DecimalIs DEF DecimalOf
      <3> DEFINE d == Digits[n + 1]
      <3> HIDE DEF d
      <3>4. d \in DigitSet /\ Decimal[n] = <<d>> /\ Digit(d) = n
        BY <3>2, <3>3 DEF d
      <3>5. Atoi(<<d>>) = n
        BY <3>4, AtoiOne
      <3>6. <<d>> \in Seq(DigitSet) /\ Len(<<d>>) = 1
        BY <3>4
      <3> QED
        BY <3>4, <3>5, <3>6
    <2>2. CASE ~(n < 10)
      <3> DEFINE m == n \div 10
                 d == Digits[(n % 10) + 1]
                 t == Decimal[m]
      <3>1. m \in 0 .. n - 1 /\ n % 10 \in 0 .. 9 /\ n = 10 * m + (n % 10)
        BY <2>2, Tenth
      <3>2. Digit(d) = n % 10 /\ d \in DigitSet
        BY <3>1, DigitValues
      <3>3. Decimal[n] = t \o <<d>>
        BY <2>2, DecimalIs DEF DecimalOf
      <3>4. t \in Seq(DigitSet) /\ Len(t) >= 1 /\ Atoi(t) = m
        BY <1>1, <3>1
      <3> HIDE DEF m, d, t
      <3>5. t # <<>>
        BY <3>4
      <3>6. Atoi(t \o <<d>>) = n
        BY <3>1, <3>2, <3>4, <3>5, AtoiMore
      <3>7. t \o <<d>> \in Seq(DigitSet) /\ Len(t \o <<d>>) = Len(t) + 1
        BY <3>2, <3>4, OneMore
      <3>8. Len(t) + 1 >= 1
        BY <3>4
      <3> QED
        BY <3>3, <3>6, <3>7, <3>8
    <2> QED
      BY <2>1, <2>2
  <1> HIDE DEF Right
  <1>2. Wrong = {}
    <2> SUFFICES ASSUME Wrong # {} PROVE FALSE
      OBVIOUS
    <2>1. PICK n \in Wrong : \A m \in Wrong : n <= m
      BY Reading!LeastNatural
    <2>2. \A m \in 0 .. n - 1 : m \in Nat /\ m \notin Wrong
      BY <2>1
    <2>3. \A m \in 0 .. n - 1 : Right(m)
      BY <2>2
    <2> QED
      BY <1>1, <2>3
  <1>3. \A n \in Nat : Right(n)
    BY <1>2
  <1> QED
    BY <1>3 DEF Right

-----------------------------------------------------------------------------
(* Texts taken apart.                                                      *)

(* The delimiters of a text are at p[1], ..., p[n].                        *)
Cut(text, delim, p, n) ==
    /\ p[0] = 0 /\ p[n + 1] = Len(text) + 1
    /\ \A k \in 0 .. n + 1 : p[k] \in Nat
    /\ \A k \in 0 .. n : p[k] < p[k + 1]
    /\ \A k \in 1 .. n : text[p[k]] = delim
    /\ \A k \in 0 .. n : \A j \in p[k] + 1 .. p[k + 1] - 1 : text[j] # delim

(* Every position lies between two delimiters or is one's.                 *)
LEMMA CutCovers ==
    ASSUME NEW S, NEW text \in Seq(S), NEW delim, NEW n \in Nat, NEW p, Cut(text, delim, p, n),
           NEW m \in 1 .. Len(text)
    PROVE  \E k \in 0 .. n : p[k] <= m /\ m < p[k + 1]
  <1> DEFINE Above == {k \in 0 .. n + 1 : m < p[k]}
  <1>1. m \in Nat /\ 1 <= m /\ m <= Len(text) /\ Len(text) \in Nat
    OBVIOUS
  <1>2. /\ p[0] = 0 /\ p[n + 1] = Len(text) + 1 /\ \A k \in 0 .. n + 1 : p[k] \in Nat
    BY DEF Cut
  <1>3. n + 1 \in Above /\ Above \in SUBSET Nat
    <2>1. n + 1 \in 0 .. n + 1 /\ m < Len(text) + 1
      BY <1>1
    <2>2. n + 1 \in Above
      BY <1>2, <2>1
    <2>3. Above \in SUBSET Nat
      OBVIOUS
    <2> QED
      BY <2>2, <2>3
  <1>4. PICK k \in Above : \A j \in Above : k <= j
    BY <1>3, Reading!LeastNatural
  <1>5. k \in 0 .. n + 1 /\ m < p[k]
    BY <1>4
  <1>6. k # 0
    BY <1>1, <1>2, <1>5
  <1>7. k - 1 \in 0 .. n /\ k - 1 \in 0 .. n + 1 /\ (k - 1) + 1 = k /\ ~(k <= k - 1)
    BY <1>5, <1>6
  <1>8. k - 1 \notin Above
    BY <1>4, <1>7
  <1>9. ~(m < p[k - 1]) /\ p[k - 1] \in Nat
    BY <1>2, <1>7, <1>8
  <1>10. p[k - 1] <= m
    BY <1>1, <1>9
  <1> QED
    BY <1>5, <1>7, <1>10

(* The positions rise.                                                     *)
LEMMA CutRises ==
    ASSUME NEW text, NEW delim, NEW n \in Nat, NEW p, Cut(text, delim, p, n),
           NEW k \in 0 .. n + 1
    PROVE  \A j \in 0 .. k : p[j] <= p[k]
  <1> DEFINE Low == {j \in Nat : p[k - j] <= p[k]}
  <1>1. (\A j \in 0 .. n + 1 : p[j] \in Nat) /\ \A j \in 0 .. n : p[j] < p[j + 1]
    BY DEF Cut
  <1>2. \A j \in 0 .. k : j \in Low
    <2>1. 0 \in Low
      <3>1. k - 0 = k /\ p[k] \in Nat
        BY <1>1
      <3> QED
        BY <3>1
    <2>2. ASSUME NEW j \in 0 .. k - 1, j \in Low PROVE j + 1 \in Low
      <3> DEFINE i1 == k - (j + 1)
      <3>1. i1 \in 0 .. n /\ i1 \in 0 .. n + 1 /\ i1 + 1 = k - j /\ k - j \in 0 .. n + 1 /\ j + 1 \in Nat
        OBVIOUS
      <3> HIDE DEF i1
      <3>2. p[i1] < p[k - j] /\ p[i1] \in Nat /\ p[k - j] \in Nat /\ p[k] \in Nat
        BY <1>1, <3>1
      <3>3. p[k - j] <= p[k]
        BY <2>2
      <3>4. p[i1] <= p[k]
        BY <3>2, <3>3
      <3> QED
        BY <3>1, <3>4 DEF i1
    <2> HIDE DEF Low
    <2>3. k \in Nat
      OBVIOUS
    <2> QED
      BY <2>1, <2>2, <2>3, Reading!UpTo
  <1> SUFFICES ASSUME NEW j \in 0 .. k PROVE p[j] <= p[k]
    OBVIOUS
  <1>3. k - j \in 0 .. k /\ k - (k - j) = j
    OBVIOUS
  <1>4. k - j \in Low
    BY <1>2, <1>3
  <1> QED
    BY <1>3, <1>4

(* Up to the k-th delimiter there are k.                                   *)
Upto(text, delim, m) == {j \in 1 .. m : text[j] = delim}

LEMMA CutCounts ==
    ASSUME NEW text, NEW delim, NEW n \in Nat, NEW p, Cut(text, delim, p, n)
    PROVE  \A k \in 0 .. n : Cardinality(Upto(text, delim, p[k])) = k
  <1> DEFINE D(k)    == Upto(text, delim, p[k])
             Counted == {k \in Nat : IsFiniteSet(D(k)) /\ Cardinality(D(k)) = k}
  <1>1. /\ p[0] = 0 /\ (\A k \in 0 .. n + 1 : p[k] \in Nat) /\ \A k \in 0 .. n : p[k] < p[k + 1]
        /\ \A k \in 1 .. n : text[p[k]] = delim
        /\ \A k \in 0 .. n : \A j \in p[k] + 1 .. p[k + 1] - 1 : text[j] # delim
    BY DEF Cut
  <1>2. 0 \in Counted
    <2>1. D(0) = {}
      BY <1>1 DEF Upto
    <2> QED
      BY <2>1, FS_EmptySet
  <1>3. ASSUME NEW k \in 0 .. n - 1, k \in Counted PROVE k + 1 \in Counted
    <2>1. k \in 0 .. n /\ k + 1 \in 1 .. n /\ k \in 0 .. n + 1 /\ k + 1 \in 0 .. n + 1
      OBVIOUS
    <2> DEFINE a == p[k]
               b == p[k + 1]
    <2>2. /\ a \in Nat /\ b \in Nat /\ a < b /\ text[b] = delim
          /\ \A j \in a + 1 .. b - 1 : text[j] # delim
      BY <1>1, <2>1
    <2> HIDE DEF a, b
    <2>3. Upto(text, delim, b) = Upto(text, delim, a) \union {b} /\ b \notin Upto(text, delim, a)
      <3>1. ASSUME NEW j \in Upto(text, delim, b) PROVE j \in Upto(text, delim, a) \/ j = b
        <4>1. j \in 1 .. b /\ text[j] = delim
          BY <3>1 DEF Upto
        <4>2. j \notin a + 1 .. b - 1
          BY <2>2, <4>1
        <4>3. j \in 1 .. a \/ j = b
          BY <2>2, <4>1, <4>2
        <4> QED
          BY <4>1, <4>3 DEF Upto
      <3>2. ASSUME NEW j \in Upto(text, delim, a) PROVE j \in Upto(text, delim, b) /\ j # b
        <4>1. j \in 1 .. a /\ text[j] = delim
          BY <3>2 DEF Upto
        <4>2. j \in 1 .. b /\ j # b
          BY <2>2, <4>1
        <4> QED
          BY <4>1, <4>2 DEF Upto
      <3>3. b \in Upto(text, delim, b)
        <4>1. b \in 1 .. b
          BY <2>2
        <4> QED
          BY <2>2, <4>1 DEF Upto
      <3> QED
        BY <3>1, <3>2, <3>3
    <2>4. IsFiniteSet(Upto(text, delim, a)) /\ Cardinality(Upto(text, delim, a)) = k
      BY <1>3 DEF a
    <2>5. /\ IsFiniteSet(Upto(text, delim, b))
          /\ Cardinality(Upto(text, delim, b)) = k + 1
      BY <2>3, <2>4, FS_AddElement
    <2>6. k + 1 \in Nat
      OBVIOUS
    <2> QED
      BY <2>5, <2>6 DEF b
  <1> HIDE DEF Counted
  <1>4. \A k \in 0 .. n : k \in Counted
    BY <1>2, <1>3, Reading!UpTo
  <1> QED
    BY <1>4 DEF Counted

(* The pieces begin behind the delimiters.                                 *)
LEMMA CutFrom ==
    ASSUME NEW S, NEW text \in Seq(S), NEW delim, NEW n \in Nat, NEW p, Cut(text, delim, p, n)
    PROVE  /\ \A k \in 0 .. n : From(text, k, delim) = p[k] + 1
           /\ \A k \in Nat : k > n => From(text, k, delim) = Len(text) + 1
  <1> DEFINE nth(c) == {k \in DOMAIN text : /\ text[k] = delim
                                            /\ Cardinality(Upto(text, delim, k)) = c}
  <1>1. /\ p[0] = 0 /\ p[n + 1] = Len(text) + 1 /\ (\A k \in 0 .. n + 1 : p[k] \in Nat)
        /\ (\A k \in 0 .. n : p[k] < p[k + 1]) /\ \A k \in 1 .. n : text[p[k]] = delim
        /\ \A k \in 0 .. n : \A j \in p[k] + 1 .. p[k + 1] - 1 : text[j] # delim
    BY DEF Cut
  <1>2. \A c : From(text, c, delim) =
                  IF c = 0 THEN 1 ELSE IF nth(c) = {} THEN Len(text) + 1 ELSE Min(nth(c)) + 1
    BY DEF From, Upto
  <1>3. ASSUME NEW c, NEW m \in nth(c) PROVE \E k \in 1 .. n : m = p[k] /\ c = k
    <2>1. m \in 1 .. Len(text) /\ text[m] = delim /\ Cardinality(Upto(text, delim, m)) = c
      OBVIOUS
    <2>2. PICK k \in 0 .. n : p[k] <= m /\ m < p[k + 1]
      BY <2>1, CutCovers
    <2>3. k + 1 \in 0 .. n + 1 /\ k \in 0 .. n + 1 /\ m \in Nat /\ 1 <= m
      BY <2>1
    <2>4. p[k] \in Nat /\ p[k + 1] \in Nat
      BY <1>1, <2>3
    <2>5. m \notin p[k] + 1 .. p[k + 1] - 1
      BY <1>1, <2>1
    <2>6. m = p[k]
      BY <2>2, <2>3, <2>4, <2>5
    <2>7. k # 0
      BY <1>1, <2>3, <2>6
    <2>8. c = k
      BY <2>1, <2>6, CutCounts
    <2> QED
      BY <2>6, <2>7, <2>8
  <1>4. ASSUME NEW c \in 1 .. n PROVE nth(c) = {p[c]}
    <2>1. c \in 0 .. n /\ c \in 0 .. n + 1 /\ c - 1 \in 0 .. n /\ (c - 1) + 1 = c /\ c \in 0 .. c
          /\ n + 1 \in 0 .. n + 1 /\ c \in 0 .. n /\ c - 1 \in 0 .. n + 1
      OBVIOUS
    <2>2. p[c] \in DOMAIN text
      <3>1. p[c] \in Nat /\ p[c - 1] \in Nat /\ p[c - 1] < p[c]
        BY <1>1, <2>1
      <3>2. p[c] < p[c + 1] /\ c + 1 \in 0 .. n + 1
        BY <1>1, <2>1
      <3>3. p[c + 1] <= p[n + 1] /\ p[c + 1] \in Nat
        BY <1>1, <2>1, <3>2, CutRises
      <3>4. p[c] <= Len(text) /\ p[c] >= 1
        <4> DEFINE a == p[c]
                   b == p[c + 1]
                   z == p[c - 1]
                   l == Len(text)
        <4>1. a \in Nat /\ z \in Nat /\ z < a /\ a < b /\ b \in Nat /\ b <= l + 1 /\ l \in Nat
          BY <1>1, <3>1, <3>2, <3>3
        <4> HIDE DEF a, b, z, l
        <4>2. a <= l /\ a >= 1
          BY <4>1
        <4> QED
          BY <4>2 DEF a, l
      <3> QED
        BY <3>1, <3>4
    <2>3. text[p[c]] = delim /\ Cardinality(Upto(text, delim, p[c])) = c
      BY <1>1, <2>1, CutCounts
    <2>4. p[c] \in nth(c)
      BY <2>2, <2>3
    <2> HIDE DEF nth
    <2>5. \A m \in nth(c) : m = p[c]
      BY <1>3
    <2> QED
      BY <2>4, <2>5
  <1>5. ASSUME NEW c \in 0 .. n PROVE From(text, c, delim) = p[c] + 1
    <2>1. CASE c = 0
      <3>1. From(text, c, delim) = 1
        BY <1>2, <2>1
      <3>2. p[0] + 1 = 1
        BY <1>1
      <3> QED
        BY <2>1, <3>1, <3>2
    <2>2. CASE c # 0
      <3>1. c \in 1 .. n /\ c \in 0 .. n + 1
        BY <2>2
      <3>2. nth(c) = {p[c]} /\ p[c] \in Nat
        BY <1>1, <1>4, <3>1
      <3> HIDE DEF nth
      <3>3. Min({p[c]}) = p[c]
        <4>1. {p[c]} \in SUBSET Nat /\ {p[c]} # {}
          BY <3>2
        <4>2. Min({p[c]}) \in {p[c]}
          BY <4>1, MinIs
        <4> QED
          BY <4>2
      <3>4. From(text, c, delim) = Min(nth(c)) + 1
        BY <1>2, <2>2, <3>2
      <3> QED
        BY <3>2, <3>3, <3>4
    <2> QED
      BY <2>1, <2>2
  <1>6. ASSUME NEW c \in Nat, c > n PROVE From(text, c, delim) = Len(text) + 1
    <2> HIDE DEF nth
    <2>1. nth(c) = {}
      <3>1. \A k \in 1 .. n : c # k
        BY <1>6
      <3> QED
        BY <1>3, <3>1
    <2>2. c # 0
      BY <1>6
    <2> QED
      BY <1>2, <2>1, <2>2
  <1> QED
    BY <1>5, <1>6

(* A piece ends before the next delimiter, unless that ends the text.      *)
LEMMA CutSplice ==
    ASSUME NEW S, NEW text \in Seq(S), NEW delim, NEW n \in Nat, NEW p, Cut(text, delim, p, n)
    PROVE  /\ \A k \in 0 .. n : p[k + 1] # Len(text) =>
                 Splice(text, k, delim) = SubSeq(text, p[k] + 1, p[k + 1] - 1)
           /\ \A k \in Nat : k > n => Splice(text, k, delim) = <<>>
  <1>1. /\ p[0] = 0 /\ p[n + 1] = Len(text) + 1 /\ (\A k \in 0 .. n + 1 : p[k] \in Nat)
        /\ (\A k \in 0 .. n : p[k] < p[k + 1]) /\ \A k \in 1 .. n : text[p[k]] = delim
        /\ \A k \in 0 .. n : \A j \in p[k] + 1 .. p[k + 1] - 1 : text[j] # delim
    BY DEF Cut
  <1> DEFINE l == Len(text)
  <1>2. l \in Nat
    OBVIOUS
  <1>3. ASSUME NEW k \in 0 .. n, p[k + 1] # Len(text)
        PROVE  Splice(text, k, delim) = SubSeq(text, p[k] + 1, p[k + 1] - 1)
    <2> DEFINE a    == p[k]
               b    == p[k + 1]
               ends == {j \in a + 1 .. l - 1 : text[j] = delim}
    <2>1. k \in 0 .. n + 1 /\ k + 1 \in 0 .. n + 1 /\ n + 1 \in 0 .. n + 1
      OBVIOUS
    <2>2. /\ a \in Nat /\ b \in Nat /\ a < b /\ b # l
          /\ \A j \in a + 1 .. b - 1 : text[j] # delim
      BY <1>1, <1>3, <2>1
    <2>3. Splice(text, k, delim) = SubSeq(text, a + 1, IF ends = {} THEN l ELSE Min(ends) - 1)
      <3>1. From(text, k, delim) = a + 1
        BY CutFrom
      <3> QED
        BY <3>1 DEF Splice
    <2>4. b <= l + 1
      BY <1>1, <2>1, CutRises
    <2>5. b <= l => text[b] = delim
      <3>1. b <= l => k # n
        BY <1>1, <1>2
      <3>2. k # n => k + 1 \in 1 .. n
        OBVIOUS
      <3> QED
        BY <1>1, <3>1, <3>2
    <2> HIDE DEF a, b, l
    <2>6. CASE b = l + 1
      <3>1. ends = {}
        BY <1>2, <2>2, <2>6
      <3>2. b - 1 = l
        BY <1>2, <2>6
      <3> HIDE DEF ends
      <3>3. Splice(text, k, delim) = SubSeq(text, a + 1, l)
        BY <2>3, <3>1
      <3>4. Splice(text, k, delim) = SubSeq(text, a + 1, b - 1)
        BY <3>2, <3>3
      <3> QED
        BY <3>4 DEF a, b
    <2>7. CASE b # l + 1
      <3>1. b <= l - 1 /\ a + 1 <= b /\ text[b] = delim
        BY <1>2, <2>2, <2>4, <2>5, <2>7
      <3>2. b \in ends /\ ends \in SUBSET Nat
        BY <1>2, <2>2, <3>1
      <3>3. \A j \in ends : b <= j
        <4> SUFFICES ASSUME NEW j \in ends PROVE b <= j
          OBVIOUS
        <4>1. j \in a + 1 .. l - 1 /\ text[j] = delim
          OBVIOUS
        <4>2. j \notin a + 1 .. b - 1
          BY <2>2, <4>1
        <4> QED
          BY <1>2, <2>2, <4>1, <4>2
      <3> HIDE DEF ends
      <3>4. Min(ends) \in ends /\ Min(ends) <= b
        <4>1. ends # {}
          BY <3>2
        <4> QED
          BY <3>2, <4>1, MinIs
      <3>5. b <= Min(ends)
        BY <3>3, <3>4
      <3>6. Min(ends) \in Nat
        BY <3>2, <3>4
      <3>7. Min(ends) = b
        BY <2>2, <3>4, <3>5, <3>6
      <3>8. ends # {}
        BY <3>2
      <3>9. Splice(text, k, delim) = SubSeq(text, a + 1, b - 1)
        BY <2>3, <3>7, <3>8
      <3> QED
        BY <3>9 DEF a, b
    <2> QED
      BY <2>6, <2>7
  <1>4. ASSUME NEW k \in Nat, k > n PROVE Splice(text, k, delim) = <<>>
    <2> DEFINE ends == {j \in l + 1 .. l - 1 : text[j] = delim}
    <2>1. From(text, k, delim) = l + 1
      BY <1>4, CutFrom
    <2>2. Splice(text, k, delim) = SubSeq(text, l + 1, IF ends = {} THEN l ELSE Min(ends) - 1)
      BY <2>1 DEF Splice
    <2>3. ends = {}
      BY <1>2
    <2>4. SubSeq(text, l + 1, l) = <<>>
      BY <1>2
    <2> HIDE DEF ends, l
    <2> QED
      BY <2>2, <2>3, <2>4
  <1> QED
    BY <1>3, <1>4

(* A text without the delimiter is all before it.                          *)
LEMMA BeforeNone ==
    ASSUME NEW S, NEW text \in Seq(S), NEW delim, \A k \in 1 .. Len(text) : text[k] # delim
    PROVE  Before(text, delim) = text
  <1>1. {k \in DOMAIN text : text[k] = delim} = {}
    OBVIOUS
  <1> QED
    BY <1>1 DEF Before

(* What is before the first delimiter.                                     *)
LEMMA BeforeFirst ==
    ASSUME NEW S, NEW text \in Seq(S), NEW delim, NEW m \in 1 .. Len(text), text[m] = delim,
           \A k \in 1 .. m - 1 : text[k] # delim
    PROVE  Before(text, delim) = SubSeq(text, 1, m - 1)
  <1> DEFINE ends == {k \in DOMAIN text : text[k] = delim}
  <1>1. m \in ends /\ ends \in SUBSET Nat /\ m \in Nat
    OBVIOUS
  <1>2. \A k \in ends : m <= k
    <2> SUFFICES ASSUME NEW k \in ends PROVE m <= k
      OBVIOUS
    <2>1. k \in 1 .. Len(text) /\ text[k] = delim
      OBVIOUS
    <2>2. k \notin 1 .. m - 1
      BY <2>1
    <2> QED
      BY <1>1, <2>1, <2>2
  <1>3. Before(text, delim) = IF ends = {} THEN text ELSE SubSeq(text, 1, Min(ends) - 1)
    BY DEF Before
  <1> HIDE DEF ends
  <1>4. Min(ends) \in ends /\ Min(ends) <= m
    <2>1. ends # {}
      BY <1>1
    <2> QED
      BY <1>1, <2>1, MinIs
  <1>5. m <= Min(ends)
    BY <1>2, <1>4
  <1>6. Min(ends) \in Nat
    BY <1>1, <1>4
  <1>7. Min(ends) = m
    BY <1>1, <1>4, <1>5, <1>6
  <1> QED
    BY <1>1, <1>3, <1>7

(* Behind the first delimiter.                                             *)
LEMMA FromFirst ==
    ASSUME NEW S, NEW text \in Seq(S), NEW delim, NEW m \in 1 .. Len(text), text[m] = delim,
           \A k \in 1 .. m - 1 : text[k] # delim
    PROVE  From(text, 1, delim) = m + 1
  <1> DEFINE nth == {k \in DOMAIN text : /\ text[k] = delim
                                         /\ Cardinality(Upto(text, delim, k)) = 1}
  <1>1. From(text, 1, delim) = IF nth = {} THEN Len(text) + 1 ELSE Min(nth) + 1
    BY DEF From, Upto
  <1>2. m \in nth
    <2>1. Upto(text, delim, m) = {m}
      <3>1. ASSUME NEW k \in Upto(text, delim, m) PROVE k = m
        <4>1. k \in 1 .. m /\ k \notin 1 .. m - 1
          BY DEF Upto
        <4> QED
          BY <4>1
      <3>2. m \in Upto(text, delim, m)
        BY DEF Upto
      <3> QED
        BY <3>1, <3>2
    <2>2. Cardinality({m}) = 1
      BY FS_Singleton
    <2>3. m \in DOMAIN text /\ Cardinality(Upto(text, delim, m)) = 1
      BY <2>1, <2>2
    <2> QED
      BY <2>3
  <1>3. \A k \in nth : m <= k
    <2> SUFFICES ASSUME NEW k \in nth PROVE m <= k
      OBVIOUS
    <2>1. k \in 1 .. Len(text) /\ k \notin 1 .. m - 1
      OBVIOUS
    <2> QED
      BY <2>1
  <1>4. nth \in SUBSET Nat
    OBVIOUS
  <1> HIDE DEF nth
  <1>5. nth # {}
    BY <1>2
  <1>6. Min(nth) \in nth /\ Min(nth) <= m
    BY <1>2, <1>4, <1>5, MinIs
  <1>7. m <= Min(nth) /\ Min(nth) \in Nat
    BY <1>3, <1>4, <1>6
  <1>8. Min(nth) = m
    BY <1>6, <1>7
  <1> QED
    BY <1>1, <1>5, <1>8

-----------------------------------------------------------------------------
(* Scripts written into lines.                                             *)

Tokens == STRING \union DigitSet \union {"chain", " ", "$", "\"", "~", "@", ":"}
Plain  == Tokens \ {"$"}

LEMMA DigitsPlain ==
    \A d \in DigitSet : d \in Plain /\ d # "$" /\ d # ":" /\ d # "~" /\ d # "@" /\ d # "\""
  <1> SUFFICES ASSUME NEW d \in DigitSet
               PROVE  d # "$" /\ d # ":" /\ d # "~" /\ d # "@" /\ d # "\""
    BY DEF Plain, Tokens
  <1>1. PICK k \in 1 .. 10 : d = Digits[k]
    BY DEF DigitSet
  <1>2. d \in {"0", "1", "2", "3", "4", "5", "6", "7", "8", "9"}
    BY <1>1 DEF Digits
  <1> QED
    BY <1>2

LEMMA MarksPlain == \A c \in {"chain", " ", "\"", "~", "@", ":"} : c \in Plain
  BY DEF Plain, Tokens

LEMMA TextPlain == \A c \in Text : c \in Plain
  BY DEF Plain, Tokens, Text

LEMMA DecimalPlain == \A n \in Nat : Decimal[n] \in Seq(Plain) /\ Len(Decimal[n]) >= 1
  <1>1. DigitSet \subseteq Plain
    BY DigitsPlain
  <1> QED
    BY <1>1, DecimalRead

(* The four kinds of statements.                                           *)
LEMMA Kind ==
    ASSUME NEW s \in Statement
    PROVE  \/ s.op = "run" /\ s.prog \in Text \ (Marks \union {" "}) /\ s.arg \in Seq(Text)
           \/ s.op = "print" /\ s.text \in Text
           \/ s.op = "if" /\ s.is \in Nat /\ s.to \in Nat \ {0}
           \/ s.op = "goto" /\ s.to \in Nat \ {0}
  BY DEF Statement

LEMMA WrittenAs ==
    ASSUME NEW s
    PROVE  /\ s.op = "run" => Written(s) = <<s.prog>> \o (IF s.arg = <<>> THEN <<>> ELSE <<" ">> \o s.arg)
           /\ s.op = "print" => Written(s) = <<"\"", s.text, "\"">>
           /\ s.op = "if" => Written(s) = <<"~">> \o Decimal[s.is] \o <<":">> \o Decimal[s.to] \o <<"~">>
           /\ s.op = "goto" => Written(s) = <<"@">> \o Decimal[s.to] \o <<"@">>
  BY DEF Written

(* A statement holds no $.                                                 *)
LEMMA WrittenPlain ==
    ASSUME NEW s \in Statement
    PROVE  Written(s) \in Seq(Plain) /\ Len(Written(s)) >= 1
  <1>1. ASSUME NEW c \in Plain PROVE <<c>> \in Seq(Plain) /\ Len(<<c>>) = 1
    OBVIOUS
  <1>2. ASSUME NEW c \in Plain, NEW t \in Seq(Plain)
        PROVE  <<c>> \o t \in Seq(Plain) /\ Len(<<c>> \o t) >= 1
    <2>1. <<c>> \o t \in Seq(Plain) /\ Len(<<c>> \o t) = Len(<<c>>) + Len(t)
      BY <1>1, Concat, Zenon
    <2>2. Len(t) \in Nat
      OBVIOUS
    <2> QED
      BY <1>1, <2>1, <2>2
  <1>3. ASSUME NEW t \in Seq(Plain), NEW u \in Seq(Plain), Len(t) >= 1
        PROVE  t \o u \in Seq(Plain) /\ Len(t \o u) >= 1
    <2>1. t \o u \in Seq(Plain) /\ Len(t \o u) = Len(t) + Len(u)
      BY Concat, Zenon
    <2>2. Len(t) \in Nat /\ Len(u) \in Nat
      OBVIOUS
    <2> QED
      BY <1>3, <2>1, <2>2
  <1>4. " " \in Plain /\ "\"" \in Plain /\ "~" \in Plain /\ "@" \in Plain /\ ":" \in Plain
    BY MarksPlain
  <1>5. CASE s.op = "run" /\ s.prog \in Text /\ s.arg \in Seq(Text)
    <2>1. s.prog \in Plain /\ s.arg \in Seq(Plain)
      <3>1. Text \subseteq Plain
        BY TextPlain
      <3> QED
        BY <1>5, <3>1
    <2> DEFINE rest == IF s.arg = <<>> THEN <<>> ELSE <<" ">> \o s.arg
    <2>2. rest \in Seq(Plain)
      BY <1>2, <1>4, <2>1
    <2>3. Written(s) = <<s.prog>> \o rest
      BY <1>5, WrittenAs
    <2> HIDE DEF rest
    <2> QED
      BY <1>2, <2>1, <2>2, <2>3
  <1>6. CASE s.op = "print" /\ s.text \in Text
    <2>1. s.text \in Plain
      BY <1>6, TextPlain
    <2> DEFINE q == "\""
               t == s.text
    <2> HIDE DEF q, t
    <2>2. <<q, t, q>> \in Seq(Plain) /\ Len(<<q, t, q>>) = 3 /\ 3 >= 1
      <3>1. q \in Plain /\ t \in Plain
        BY <1>4, <2>1 DEF q, t
      <3> QED
        BY <3>1
    <2>3. Written(s) = <<q, t, q>>
      BY <1>6, WrittenAs DEF q, t
    <2> QED
      BY <2>2, <2>3
  <1>7. CASE s.op = "if" /\ s.is \in Nat /\ s.to \in Nat
    <2> DEFINE a == Decimal[s.is]
               b == Decimal[s.to]
    <2>1. a \in Seq(Plain) /\ b \in Seq(Plain)
      BY <1>7, DecimalPlain
    <2>2. <<":">> \in Seq(Plain) /\ <<"~">> \in Seq(Plain)
      BY <1>1, <1>4
    <2>3. Written(s) = <<"~">> \o a \o <<":">> \o b \o <<"~">>
      BY <1>7, WrittenAs
    <2> HIDE DEF a, b
    <2>4. <<"~">> \o a \in Seq(Plain) /\ Len(<<"~">> \o a) >= 1
      BY <1>2, <1>4, <2>1
    <2>5. <<"~">> \o a \o <<":">> \in Seq(Plain) /\ Len(<<"~">> \o a \o <<":">>) >= 1
      BY <1>3, <2>2, <2>4
    <2>6. <<"~">> \o a \o <<":">> \o b \in Seq(Plain) /\ Len(<<"~">> \o a \o <<":">> \o b) >= 1
      BY <1>3, <2>1, <2>5
    <2>7. /\ <<"~">> \o a \o <<":">> \o b \o <<"~">> \in Seq(Plain)
          /\ Len(<<"~">> \o a \o <<":">> \o b \o <<"~">>) >= 1
      BY <1>3, <2>2, <2>6
    <2> QED
      BY <2>3, <2>7
  <1>8. CASE s.op = "goto" /\ s.to \in Nat
    <2> DEFINE b == Decimal[s.to]
    <2>1. b \in Seq(Plain) /\ <<"@">> \in Seq(Plain)
      BY <1>1, <1>4, <1>8, DecimalPlain
    <2>2. Written(s) = <<"@">> \o b \o <<"@">>
      BY <1>8, WrittenAs
    <2> HIDE DEF b
    <2>3. <<"@">> \o b \in Seq(Plain) /\ Len(<<"@">> \o b) >= 1
      BY <1>2, <1>4, <2>1
    <2>4. <<"@">> \o b \o <<"@">> \in Seq(Plain) /\ Len(<<"@">> \o b \o <<"@">>) >= 1
      BY <1>3, <2>1, <2>3
    <2> QED
      BY <2>2, <2>4
  <1> QED
    BY <1>5, <1>6, <1>7, <1>8, Kind

(* The line of the first n statements: p[m] is where the m-th one's $ is.  *)
Laid(text, s, p, n) ==
    /\ text \in Seq(Tokens) /\ Len(text) >= 2 /\ text[1] = "chain" /\ text[2] = " "
    /\ p[0] = 0 /\ p[1] = 3 /\ p[n + 1] = Len(text) + 1
    /\ \A m \in 0 .. n + 1 : p[m] \in Nat
    /\ \A m \in 1 .. n : /\ p[m + 1] = p[m] + 1 + Len(Written(s[m])) /\ p[m + 1] <= Len(text) + 1
                         /\ p[m] >= 3 /\ text[p[m]] = "$"
                         /\ \A j \in 1 .. Len(Written(s[m])) : text[p[m] + j] = Written(s[m])[j]

(* A statement behind a line.                                              *)
LEMMA AddedIs ==
    ASSUME NEW line \in Seq(Tokens), NEW t \in Seq(Plain)
    PROVE  /\ line \o <<"$">> \o t \in Seq(Tokens)
           /\ Len(line \o <<"$">> \o t) = Len(line) + 1 + Len(t)
           /\ \A k \in 1 .. Len(line) : (line \o <<"$">> \o t)[k] = line[k]
           /\ (line \o <<"$">> \o t)[Len(line) + 1] = "$"
           /\ \A k \in 1 .. Len(t) : (line \o <<"$">> \o t)[Len(line) + 1 + k] = t[k]
  <1> DEFINE a == line \o <<"$">>
             m == Len(line)
  <1>1. "$" \in Tokens
    BY DEF Tokens
  <1>2. m \in Nat
    OBVIOUS
  <1>3. a \in Seq(Tokens) /\ Len(a) = m + 1 /\ (\A k \in 1 .. m : a[k] = line[k]) /\ a[m + 1] = "$"
    BY <1>1, OneMore
  <1>4. t \in Seq(Tokens)
    <2>1. Plain \subseteq Tokens
      BY DEF Plain
    <2> QED
      BY <2>1
  <1> HIDE DEF a, m
  <1>5. /\ a \o t \in Seq(Tokens) /\ Len(a \o t) = Len(a) + Len(t)
        /\ \A k \in 1 .. Len(a) : (a \o t)[k] = a[k]
        /\ \A k \in 1 .. Len(t) : (a \o t)[Len(a) + k] = t[k]
    <2>1. a \in Seq(Tokens)
      BY <1>3
    <2> QED
      BY <1>4, <2>1, Concat, SMTT(30)
  <1>6. (\A k \in 1 .. m : k \in 1 .. m + 1) /\ m + 1 \in 1 .. m + 1
    BY <1>2
  <1>7. (\A k \in 1 .. m : (a \o t)[k] = line[k]) /\ (a \o t)[m + 1] = "$"
    BY <1>3, <1>5, <1>6
  <1> QED
    BY <1>3, <1>5, <1>7 DEF a, m

LEMMA LaidMore ==
    ASSUME NEW s, NEW n \in Nat, \A m \in 1 .. n + 1 : s[m] \in Statement, NEW p, NEW text, Laid(text, s, p, n),
           p[n + 2] = Len(Added(text, s[n + 1])) + 1
    PROVE  Laid(Added(text, s[n + 1]), s, p, n + 1)
  <1> DEFINE t    == Written(s[n + 1])
             more == Added(text, s[n + 1])
             l    == Len(text)
             w    == Len(t)
  <1>1. t \in Seq(Plain) /\ w >= 1 /\ w \in Nat
    <2>1. s[n + 1] \in Statement
      OBVIOUS
    <2>2. t \in Seq(Plain) /\ w >= 1
      BY <2>1, WrittenPlain
    <2> QED
      BY <2>2
  <1>2. /\ text \in Seq(Tokens) /\ l >= 2 /\ text[1] = "chain" /\ text[2] = " "
        /\ p[0] = 0 /\ p[1] = 3 /\ p[n + 1] = l + 1
        /\ \A m \in 0 .. n + 1 : p[m] \in Nat
        /\ \A m \in 1 .. n : /\ p[m + 1] = p[m] + 1 + Len(Written(s[m])) /\ p[m + 1] <= l + 1
                             /\ p[m] >= 3 /\ text[p[m]] = "$"
                             /\ \A j \in 1 .. Len(Written(s[m])) : text[p[m] + j] = Written(s[m])[j]
    BY DEF Laid
  <1>3. l \in Nat /\ l >= 2
    <2>1. text \in Seq(Tokens) /\ l >= 2
      BY <1>2
    <2> QED
      BY <2>1
  <1>4. more = text \o <<"$">> \o t
    BY DEF Added
  <1> HIDE DEF t, more, l
  <1>5. /\ more \in Seq(Tokens) /\ Len(more) = l + 1 + w
        /\ \A k \in 1 .. l : more[k] = text[k]
        /\ more[l + 1] = "$"
        /\ \A k \in 1 .. w : more[l + 1 + k] = t[k]
    BY <1>1, <1>2, <1>4, AddedIs DEF l
  <1> HIDE DEF w
  <1>6. Len(more) >= 2 /\ more[1] = "chain" /\ more[2] = " "
    <2>1. 1 \in 1 .. l /\ 2 \in 1 .. l /\ l + 1 + w >= 2
      BY <1>1, <1>3
    <2> QED
      BY <1>2, <1>5, <2>1
  <1>7. p[(n + 1) + 1] = Len(more) + 1 /\ p[(n + 1) + 1] = l + 1 + 1 + w
    <2>1. (n + 1) + 1 = n + 2 /\ (l + 1 + w) + 1 = l + 1 + 1 + w
      BY <1>1, <1>3
    <2>2. p[n + 2] = Len(more) + 1
      BY DEF more
    <2> QED
      BY <1>5, <2>1, <2>2
  <1>8. \A m \in 0 .. (n + 1) + 1 : p[m] \in Nat
    <2>1. l + 1 + 1 + w \in Nat /\ \A m \in 0 .. (n + 1) + 1 : m \in 0 .. n + 1 \/ m = (n + 1) + 1
      BY <1>1, <1>3
    <2> QED
      BY <1>2, <1>7, <2>1
  <1>9. ASSUME NEW m \in 1 .. n + 1
        PROVE  /\ p[m + 1] = p[m] + 1 + Len(Written(s[m])) /\ p[m + 1] <= Len(more) + 1
               /\ p[m] >= 3 /\ more[p[m]] = "$"
               /\ \A j \in 1 .. Len(Written(s[m])) : more[p[m] + j] = Written(s[m])[j]
    <2>1. CASE m = n + 1
      <3>1. p[m] = l + 1 /\ Len(Written(s[m])) = w /\ Written(s[m]) = t
        BY <1>2, <2>1 DEF w, t
      <3>4. p[m] >= 3
        BY <1>3, <3>1
      <3>2. p[m + 1] = p[m] + 1 + w /\ p[m + 1] <= Len(more) + 1
        <4>1. p[m + 1] = l + 1 + 1 + w /\ p[m + 1] = Len(more) + 1
          BY <1>7, <2>1
        <4>2. Len(more) \in Nat
          BY <1>5
        <4> QED
          BY <3>1, <4>1, <4>2
      <3>3. \A j \in 1 .. w : more[p[m] + j] = t[j]
        BY <1>5, <3>1
      <3> QED
        BY <1>5, <3>1, <3>2, <3>3, <3>4
    <2>2. CASE m \in 1 .. n
      <3> DEFINE v == Written(s[m])
                 a == p[m]
                 z == p[m + 1]
                 e == Len(v)
      <3>1. /\ z = a + 1 + e /\ z <= l + 1 /\ a >= 3
            /\ text[a] = "$" /\ \A j \in 1 .. e : text[a + j] = v[j]
        BY <1>2, <2>2
      <3>2. a \in Nat /\ z \in Nat
        <4>1. m \in 0 .. n + 1 /\ m + 1 \in 0 .. n + 1
          BY <2>2
        <4> QED
          BY <1>2, <4>1
      <3>3. e \in Nat
        <4>1. s[m] \in Statement
          BY <2>2
        <4>2. v \in Seq(Plain)
          BY <4>1, WrittenPlain
        <4> QED
          BY <4>2
      <3> HIDE DEF v, a, z, e
      <3>4. a \in 1 .. l /\ z <= Len(more) + 1
        BY <1>1, <1>3, <1>5, <3>1, <3>2, <3>3
      <3>5. more[a] = "$"
        BY <1>5, <3>1, <3>4
      <3>6. ASSUME NEW j \in 1 .. e PROVE more[a + j] = v[j]
        <4>1. a + j \in 1 .. l
          BY <1>3, <3>1, <3>2, <3>3
        <4> QED
          BY <1>5, <3>1, <4>1
      <3> QED
        BY <3>1, <3>4, <3>5, <3>6 DEF v, a, z, e
    <2> QED
      BY <2>1, <2>2
  <1> QED
    BY <1>2, <1>5, <1>6, <1>7, <1>8, <1>9 DEF Laid, more

(* The prefixes of a script, each with the line it is written into.        *)
Lining == INSTANCE SequenceFacts WITH Op <- Added

Opening == <<"chain", " ">>

AreLines(g, base, s, n) ==
    /\ g[0] = base /\ \A k \in 1 .. n : g[k] = Added(g[k - 1], s[k])
    /\ Lining!Folded(base, s) = g[n]

LEMMA LiningRun ==
    ASSUME NEW base, NEW n \in Nat, NEW s, DOMAIN s = 1 .. n
    PROVE  \E g : AreLines(g, base, s, n)
  BY Lining!FoldLeftRun DEF AreLines

LEMMA LineIs == \A s : Line(s) = Lining!Folded(Opening, s)
  BY DEF Line, Opening, Lining!Folded, Lining!FoldLeft, Lining!MapThenFoldSet, Lining!Max,
         FoldLeft, MapThenFoldSet, Max, Added

(* Where the statements of a script's line are.                            *)
LEMMA LineLaid ==
    ASSUME NEW s \in Seq(Statement)
    PROVE  \E p : Laid(Line(s), s, p, Len(s))
  <1> DEFINE n == Len(s)
  <1>1. n \in Nat /\ DOMAIN s = 1 .. n /\ \A m \in 1 .. n : s[m] \in Statement
    OBVIOUS
  <1> HIDE DEF n
  <1>2. PICK g : AreLines(g, Opening, s, n)
    BY <1>1, LiningRun, Zenon
  <1>3. /\ g[0] = Opening /\ \A k \in 1 .. n : g[k] = Added(g[k - 1], s[k])
        /\ Line(s) = g[n]
    BY <1>2, LineIs DEF AreLines
  <1> DEFINE p    == [k \in Nat |-> IF k = 0 THEN 0 ELSE Len(g[k - 1]) + 1]
             Done == {k \in Nat : Laid(g[k], s, p, k)}
  <1>4. p[0] = 0 /\ \A k \in Nat : p[k + 1] = Len(g[k]) + 1
    <2>1. \A k \in Nat : k + 1 \in Nat /\ k + 1 # 0 /\ (k + 1) - 1 = k
      OBVIOUS
    <2> QED
      BY <2>1
  <1> HIDE DEF p
  <1>5. 0 \in Done
    <2>1. g[0] \in Seq(Tokens) /\ Len(g[0]) = 2 /\ g[0][1] = "chain" /\ g[0][2] = " "
      <3>1. "chain" \in Tokens /\ " " \in Tokens
        BY DEF Tokens
      <3>2. ASSUME NEW a \in Tokens, NEW b \in Tokens
            PROVE  <<a, b>> \in Seq(Tokens) /\ Len(<<a, b>>) = 2 /\ <<a, b>>[1] = a /\ <<a, b>>[2] = b
        OBVIOUS
      <3>3. /\ Opening \in Seq(Tokens) /\ Len(Opening) = 2
            /\ Opening[1] = "chain" /\ Opening[2] = " "
        BY <3>1, <3>2, Zenon DEF Opening
      <3> QED
        BY <1>3, <3>3
    <2>2. p[1] = 3 /\ p[0 + 1] = Len(g[0]) + 1
      <3>1. 0 \in Nat /\ 0 + 1 = 1 /\ 2 + 1 = 3
        OBVIOUS
      <3>2. p[0 + 1] = Len(g[0]) + 1
        BY <1>4, <3>1, Zenon
      <3> QED
        BY <2>1, <3>1, <3>2, Zenon
    <2>3. \A m \in 0 .. 0 + 1 : p[m] \in Nat
      <3>1. \A m \in 0 .. 0 + 1 : m = 0 \/ m = 1
        OBVIOUS
      <3>2. p[0] \in Nat /\ p[1] \in Nat
        BY <1>4, <2>2
      <3> QED
        BY <3>1, <3>2
    <2>4. \A m \in 1 .. 0 : FALSE
      OBVIOUS
    <2>5. Laid(g[0], s, p, 0)
      <3>1. g[0] \in Seq(Tokens) /\ Len(g[0]) >= 2 /\ p[0 + 1] = Len(g[0]) + 1
        <4>1. 2 >= 2
          OBVIOUS
        <4> QED
          BY <2>1, <2>2, <4>1, Zenon
      <3>2. p[0] = 0
        BY <1>4
      <3> QED
        BY <2>1, <2>2, <2>3, <2>4, <3>1, <3>2, Zenon DEF Laid
    <2> QED
      BY <2>5
  <1>6. ASSUME NEW k \in 0 .. n - 1, k \in Done PROVE k + 1 \in Done
    <2>1. k \in Nat /\ k + 1 \in 1 .. n /\ (k + 1) - 1 = k /\ k + 2 = (k + 1) + 1 /\ k + 1 \in Nat
          /\ \A m \in 1 .. k + 1 : m \in 1 .. n
      BY <1>1
    <2>2. g[k + 1] = Added(g[k], s[k + 1])
      BY <1>3, <2>1
    <2>3. p[k + 2] = Len(Added(g[k], s[k + 1])) + 1
      BY <1>4, <2>1, <2>2
    <2>4. \A m \in 1 .. k + 1 : s[m] \in Statement
      BY <1>1, <2>1
    <2>5. Laid(g[k], s, p, k)
      BY <1>6
    <2>6. Laid(Added(g[k], s[k + 1]), s, p, k + 1)
      BY <2>1, <2>3, <2>4, <2>5, LaidMore, Zenon
    <2> QED
      BY <2>1, <2>2, <2>6
  <1> HIDE DEF Done
  <1>7. \A k \in 0 .. n : k \in Done
    BY <1>1, <1>5, <1>6, Reading!UpTo
  <1>8. Laid(Line(s), s, p, n)
    <2>1. n \in Done
      BY <1>1, <1>7
    <2> QED
      BY <1>3, <2>1 DEF Done
  <1> QED
    BY <1>8 DEF n

-----------------------------------------------------------------------------
(* What chain takes from the line of a script.                             *)

(* The $ of the line, and of what is behind its first blank.               *)
LEMMA LaidCut ==
    ASSUME NEW s, NEW n \in Nat, \A m \in 1 .. n : s[m] \in Statement, NEW p, NEW text,
           Laid(text, s, p, n)
    PROVE  /\ \A k \in 1 .. n + 1 : p[k] >= 3 /\ p[k] <= Len(text) + 1
           /\ \A k \in 1 .. n : \A j \in p[k] + 1 .. p[k + 1] - 1 : text[j] # "$"
           /\ \A k \in 1 .. n : p[k] + 1 < p[k + 1]
           /\ text[1] # "$" /\ text[2] # "$"
  <1> DEFINE l == Len(text)
  <1>1. /\ text \in Seq(Tokens) /\ l >= 2 /\ text[1] = "chain" /\ text[2] = " "
        /\ p[0] = 0 /\ p[1] = 3 /\ p[n + 1] = l + 1
        /\ \A m \in 0 .. n + 1 : p[m] \in Nat
        /\ \A m \in 1 .. n : /\ p[m + 1] = p[m] + 1 + Len(Written(s[m])) /\ p[m + 1] <= l + 1
                             /\ p[m] >= 3 /\ text[p[m]] = "$"
                             /\ \A j \in 1 .. Len(Written(s[m])) : text[p[m] + j] = Written(s[m])[j]
    BY DEF Laid
  <1>2. l \in Nat /\ l >= 2
    <2>1. text \in Seq(Tokens) /\ l >= 2
      BY <1>1
    <2> QED
      BY <2>1
  <1> HIDE DEF l
  <1>3. ASSUME NEW k \in 1 .. n
        PROVE  p[k] <= l + 1 /\ p[k] + 1 < p[k + 1] /\ \A j \in p[k] + 1 .. p[k + 1] - 1 : text[j] # "$"
    <2> DEFINE v == Written(s[k])
               a == p[k]
               z == p[k + 1]
               e == Len(v)
    <2>1. /\ z = a + 1 + e /\ z <= l + 1
          /\ \A j \in 1 .. e : text[a + j] = v[j]
      BY <1>1
    <2>2. a \in Nat /\ z \in Nat
      <3>1. k \in 0 .. n + 1 /\ k + 1 \in 0 .. n + 1
        OBVIOUS
      <3> QED
        BY <1>1, <3>1
    <2>3. s[k] \in Statement
      OBVIOUS
    <2>4. v \in Seq(Plain) /\ e >= 1
      BY <2>3, WrittenPlain
    <2>5. e \in Nat /\ \A j \in 1 .. e : v[j] \in Plain
      BY <2>4
    <2> HIDE DEF v, a, z, e
    <2>6. a <= l + 1 /\ a + 1 < z
      BY <1>2, <2>1, <2>2, <2>4, <2>5
    <2>7. ASSUME NEW j \in a + 1 .. z - 1 PROVE text[j] # "$"
      <3>1. j - a \in 1 .. e /\ a + (j - a) = j
        BY <2>1, <2>2, <2>5
      <3>2. text[j] = v[j - a]
        BY <2>1, <3>1
      <3>3. v[j - a] \in Plain
        BY <2>5, <3>1
      <3> QED
        BY <3>2, <3>3 DEF Plain
    <2> QED
      BY <2>6, <2>7 DEF a, z
  <1>4. ASSUME NEW k \in 1 .. n + 1 PROVE p[k] >= 3 /\ p[k] <= l + 1
    <2>1. CASE k \in 1 .. n
      BY <1>1, <1>3, <2>1
    <2>2. CASE k = n + 1
      <3>1. p[k] = l + 1
        BY <1>1, <2>2
      <3> QED
        BY <1>2, <3>1
    <2> QED
      BY <2>1, <2>2
  <1>5. text[1] # "$" /\ text[2] # "$"
    BY <1>1
  <1> QED
    BY <1>3, <1>4, <1>5 DEF l

LEMMA LaidPieces ==
    ASSUME NEW s, NEW n \in Nat, \A m \in 1 .. n : s[m] \in Statement, NEW p, NEW text,
           Laid(text, s, p, n)
    PROVE  /\ \A k \in 1 .. n : p[k + 1] # Len(text)
           /\ \A k \in 1 .. n : SubSeq(text, p[k] + 1, p[k + 1] - 1) = Written(s[k])
  <1> DEFINE l == Len(text)
  <1>1. /\ text \in Seq(Tokens) /\ p[n + 1] = l + 1
        /\ \A m \in 0 .. n + 1 : p[m] \in Nat
        /\ \A m \in 1 .. n : /\ p[m + 1] = p[m] + 1 + Len(Written(s[m]))
                             /\ \A j \in 1 .. Len(Written(s[m])) : text[p[m] + j] = Written(s[m])[j]
    BY DEF Laid
  <1>2. l \in Nat
    <2>1. text \in Seq(Tokens)
      BY <1>1
    <2> QED
      BY <2>1
  <1>3. /\ \A k \in 1 .. n + 1 : p[k] >= 3 /\ p[k] <= l + 1
        /\ \A k \in 1 .. n : p[k] + 1 < p[k + 1]
    BY LaidCut
  <1> HIDE DEF l
  <1>4. ASSUME NEW k \in 1 .. n PROVE p[k + 1] # l
    <2>1. CASE k = n
      BY <1>1, <1>2, <2>1
    <2>2. CASE k # n
      <3> DEFINE a == p[k + 1]
                 b == p[(k + 1) + 1]
      <3>1. /\ k + 1 \in 1 .. n /\ (k + 1) + 1 \in 1 .. n + 1
            /\ k + 1 \in 0 .. n + 1 /\ (k + 1) + 1 \in 0 .. n + 1
        BY <2>2
      <3>2. a \in Nat /\ b \in Nat /\ a + 1 < b /\ b <= l + 1
        BY <1>1, <1>3, <3>1
      <3> HIDE DEF a, b
      <3>3. a # l
        BY <1>2, <3>2
      <3> QED
        BY <3>3 DEF a
    <2> QED
      BY <2>1, <2>2
  <1>5. ASSUME NEW k \in 1 .. n PROVE SubSeq(text, p[k] + 1, p[k + 1] - 1) = Written(s[k])
    <2> DEFINE v == Written(s[k])
               a == p[k]
               z == p[k + 1]
               e == Len(v)
               w == SubSeq(text, a + 1, z - 1)
    <2>1. z = a + 1 + e /\ \A j \in 1 .. e : text[a + j] = v[j]
      BY <1>1
    <2>2. k \in 0 .. n + 1 /\ k + 1 \in 0 .. n + 1 /\ k + 1 \in 1 .. n + 1
      OBVIOUS
    <2>3. a \in Nat /\ z \in Nat /\ z <= l + 1
      BY <1>1, <1>3, <2>2
    <2>4. s[k] \in Statement
      OBVIOUS
    <2>5. v \in Seq(Plain) /\ e >= 1
      BY <2>4, WrittenPlain
    <2>6. v \in Seq(Tokens) /\ e \in Nat
      <3>1. Plain \subseteq Tokens
        BY DEF Plain
      <3> QED
        BY <2>5, <3>1
    <2>7. text \in Seq(Tokens) /\ Len(text) = l
      BY <1>1 DEF l
    <2> HIDE DEF v, a, z, e
    <2>8. /\ a + 1 \in Int /\ z - 1 \in Int /\ 1 <= a + 1 /\ z - 1 <= l
          /\ a + 1 <= (z - 1) + 1 /\ ((z - 1) - (a + 1)) + 1 = e
          /\ \A j \in 1 .. e : ((a + 1) + j) - 1 = a + j
      BY <1>2, <2>1, <2>3, <2>6
    <2>9. /\ w \in Seq(Tokens) /\ Len(w) = ((z - 1) - (a + 1)) + 1
          /\ \A j \in 1 .. ((z - 1) - (a + 1)) + 1 : w[j] = text[((a + 1) + j) - 1]
      BY <2>7, <2>8, Reading!Part
    <2> HIDE DEF w
    <2>10. w \in Seq(Tokens) /\ Len(w) = e /\ \A j \in 1 .. e : w[j] = v[j]
      BY <2>1, <2>8, <2>9
    <2>11. Len(w) = Len(v) /\ \A j \in 1 .. Len(w) : w[j] = v[j]
      BY <2>10 DEF e
    <2>12. w = v
      BY <2>6, <2>10, <2>11, SameText
    <2> QED
      BY <2>12 DEF w, v, a, z
  <1> QED
    BY <1>4, <1>5 DEF l

LEMMA LineCut ==
    ASSUME NEW s, NEW n \in Nat, \A m \in 1 .. n : s[m] \in Statement, NEW p, NEW text,
           Laid(text, s, p, n)
    PROVE  Cut(text, "$", p, n)
  <1> DEFINE l == Len(text)
  <1>1. /\ text \in Seq(Tokens) /\ p[0] = 0 /\ p[1] = 3 /\ p[n + 1] = l + 1
        /\ \A m \in 0 .. n + 1 : p[m] \in Nat
        /\ \A m \in 1 .. n : text[p[m]] = "$"
    BY DEF Laid
  <1>2. /\ \A k \in 1 .. n + 1 : p[k] >= 3 /\ p[k] <= l + 1
        /\ \A k \in 1 .. n : \A j \in p[k] + 1 .. p[k + 1] - 1 : text[j] # "$"
        /\ \A k \in 1 .. n : p[k] + 1 < p[k + 1]
        /\ text[1] # "$" /\ text[2] # "$"
    BY LaidCut
  <1> HIDE DEF l
  <1>3. ASSUME NEW k \in 0 .. n PROVE p[k] < p[k + 1]
    <2>1. CASE k = 0
      <3>1. p[0 + 1] = 3 /\ 0 < 3
        BY <1>1
      <3> QED
        BY <1>1, <2>1, <3>1, Zenon
    <2>2. CASE k # 0
      <3> DEFINE a == p[k]
                 b == p[k + 1]
      <3>1. k \in 1 .. n /\ k \in 0 .. n + 1 /\ k + 1 \in 0 .. n + 1
        BY <2>2
      <3>2. a \in Nat /\ b \in Nat /\ a + 1 < b
        BY <1>1, <1>2, <3>1
      <3> HIDE DEF a, b
      <3>3. a < b
        BY <3>2
      <3> QED
        BY <3>3 DEF a, b
    <2> QED
      BY <2>1, <2>2
  <1>4. ASSUME NEW k \in 0 .. n PROVE \A j \in p[k] + 1 .. p[k + 1] - 1 : text[j] # "$"
    <2>1. CASE k = 0
      <3>1. p[k] = 0 /\ p[k + 1] = 3
        BY <1>1, <2>1
      <3>2. ASSUME NEW j \in p[k] + 1 .. p[k + 1] - 1 PROVE j = 1 \/ j = 2
        BY <3>1
      <3> QED
        BY <1>2, <3>2
    <2>2. CASE k # 0
      <3>1. k \in 1 .. n
        BY <2>2
      <3> QED
        BY <1>2, <3>1
    <2> QED
      BY <2>1, <2>2
  <1> QED
    BY <1>1, <1>3, <1>4 DEF Cut, l

(* The same of what is behind the first blank.                             *)
Shifted(p, n) == [k \in 0 .. n + 1 |-> IF k = 0 THEN 0 ELSE p[k] - 2]

IsBehind(raw, text, q, n) ==
    /\ raw \in Seq(Tokens) /\ Len(raw) = Len(text) - 2
    /\ \A k \in 1 .. Len(raw) : raw[k] = text[k + 2]
    /\ Cut(raw, "$", q, n)

LEMMA RawCut ==
    ASSUME NEW s, NEW n \in Nat, \A m \in 1 .. n : s[m] \in Statement, NEW p, NEW text,
           Laid(text, s, p, n)
    PROVE  IsBehind(SubSeq(text, 3, Len(text)), text, Shifted(p, n), n)
  <1> SUFFICES ASSUME NEW q, q = Shifted(p, n), NEW raw, raw = SubSeq(text, 3, Len(text))
               PROVE  IsBehind(raw, text, q, n)
    OBVIOUS
  <1> DEFINE l == Len(text)
             r == Len(raw)
  <1>1. /\ text \in Seq(Tokens) /\ l >= 2 /\ p[1] = 3 /\ p[n + 1] = l + 1
        /\ \A m \in 0 .. n + 1 : p[m] \in Nat
        /\ \A m \in 1 .. n : text[p[m]] = "$"
    BY DEF Laid
  <1>2. l \in Nat /\ l >= 2
    <2>1. text \in Seq(Tokens) /\ l >= 2
      BY <1>1
    <2> QED
      BY <2>1
  <1>3. /\ \A k \in 1 .. n + 1 : p[k] >= 3 /\ p[k] <= l + 1
        /\ \A k \in 1 .. n : \A j \in p[k] + 1 .. p[k + 1] - 1 : text[j] # "$"
        /\ \A k \in 1 .. n : p[k] + 1 < p[k + 1]
    BY LaidCut
  <1>4. /\ raw \in Seq(Tokens) /\ r = l - 2
        /\ \A k \in 1 .. l - 2 : raw[k] = text[k + 2]
    <2>1. /\ 3 \in Int /\ l \in Int /\ 1 <= 3 /\ l <= l /\ 3 <= l + 1 /\ (l - 3) + 1 = l - 2
          /\ \A k \in 1 .. l - 2 : (3 + k) - 1 = k + 2
      BY <1>2
    <2>2. text \in Seq(Tokens) /\ Len(text) = l
      BY <1>1
    <2> HIDE DEF l
    <2>3. /\ raw \in Seq(Tokens) /\ Len(raw) = (l - 3) + 1
          /\ \A k \in 1 .. (l - 3) + 1 : raw[k] = text[(3 + k) - 1]
      BY <2>1, <2>2, Reading!Part
    <2> QED
      BY <2>1, <2>3
  <1> HIDE DEF l, r
  <1>5. q[0] = 0 /\ \A k \in 1 .. n + 1 : q[k] = p[k] - 2
    <2>1. 0 \in 0 .. n + 1 /\ \A k \in 1 .. n + 1 : k \in 0 .. n + 1 /\ k # 0
      OBVIOUS
    <2> QED
      BY <2>1 DEF Shifted
  <1>6. q[n + 1] = r + 1
    <2>1. n + 1 \in 1 .. n + 1 /\ (l + 1) - 2 = (l - 2) + 1
      BY <1>2
    <2> QED
      BY <1>1, <1>4, <1>5, <2>1
  <1>7. \A k \in 1 .. n + 1 : p[k] \in Nat
    <2>1. \A k \in 1 .. n + 1 : k \in 0 .. n + 1
      OBVIOUS
    <2> QED
      BY <1>1, <2>1
  <1>8. ASSUME NEW k \in 0 .. n + 1 PROVE q[k] \in Nat
    <2>1. CASE k \in 1 .. n + 1
      <3>1. p[k] \in Nat /\ p[k] >= 3 /\ q[k] = p[k] - 2
        BY <1>3, <1>5, <1>7, <2>1
      <3> QED
        BY <3>1
    <2>2. CASE k = 0
      BY <1>5, <2>2
    <2> QED
      BY <2>1, <2>2
  <1>9. ASSUME NEW k \in 1 .. n PROVE raw[q[k]] = "$"
    <2> DEFINE a == p[k]
               z == p[k + 1]
    <2>1. k \in 1 .. n + 1 /\ k + 1 \in 1 .. n + 1
      OBVIOUS
    <2>2. a \in Nat /\ z \in Nat /\ a >= 3 /\ a + 1 < z /\ z <= l + 1 /\ q[k] = a - 2 /\ text[a] = "$"
      BY <1>1, <1>3, <1>5, <1>7, <2>1
    <2> HIDE DEF a, z
    <2>3. a - 2 \in 1 .. l - 2 /\ (a - 2) + 2 = a
      BY <1>2, <2>2
    <2> QED
      BY <1>4, <2>2, <2>3
  <1>10. ASSUME NEW k \in 0 .. n
         PROVE  q[k] < q[k + 1] /\ \A j \in q[k] + 1 .. q[k + 1] - 1 : raw[j] # "$"
    <2>1. CASE k = 0
      <3>1. q[k] = 0 /\ q[k + 1] = 1
        <4>1. 1 \in 1 .. n + 1 /\ 0 + 1 = 1 /\ 3 - 2 = 1
          OBVIOUS
        <4> QED
          BY <1>1, <1>5, <2>1, <4>1
      <3> QED
        BY <3>1
    <2>2. CASE k # 0
      <3> DEFINE a == p[k]
                 z == p[k + 1]
      <3>1. k \in 1 .. n + 1 /\ k + 1 \in 1 .. n + 1 /\ k \in 1 .. n
        BY <2>2
      <3>2. a \in Nat /\ z \in Nat /\ a >= 3 /\ a + 1 < z /\ z <= l + 1 /\ q[k] = a - 2
            /\ q[k + 1] = z - 2 /\ \A j \in a + 1 .. z - 1 : text[j] # "$"
        BY <1>3, <1>5, <1>7, <3>1
      <3> HIDE DEF a, z
      <3>3. q[k] < q[k + 1]
        BY <3>2
      <3>4. ASSUME NEW j \in q[k] + 1 .. q[k + 1] - 1 PROVE raw[j] # "$"
        <4>1. j \in (a - 2) + 1 .. (z - 2) - 1
          BY <3>2
        <4>2. j \in 1 .. l - 2 /\ j + 2 \in a + 1 .. z - 1
          BY <1>2, <3>2, <4>1
        <4> QED
          BY <1>4, <3>2, <4>2
      <3> QED
        BY <3>3, <3>4
    <2> QED
      BY <2>1, <2>2
  <1>11. Cut(raw, "$", q, n)
    BY <1>5, <1>6, <1>8, <1>9, <1>10 DEF Cut, r
  <1> QED
    BY <1>4, <1>11 DEF IsBehind, l, r

(* What chain takes as its k-th statement from the line.                   *)
Piece(line, k) ==
    Before(Splice(SubSeq(line, From(line, 1, " "), Len(line)), k, "$"), "$")

(* There are as many statements in the line as in the script, and the k-th *)
(* one is what was written.                                                *)
LEMMA LinePieces ==
    ASSUME NEW s \in Seq(Statement)
    PROVE  /\ \A k \in Nat : k # 0 => (Splice(Line(s), k, "$") # <<>> <=> k \in 1 .. Len(s))
           /\ \A k \in 1 .. Len(s) : Piece(Line(s), k) = Written(s[k])
           /\ Line(s) \in Seq(Tokens)
  <1> DEFINE n    == Len(s)
             text == Line(s)
             l    == Len(text)
  <1>1. n \in Nat /\ \A m \in 1 .. n : s[m] \in Statement
    OBVIOUS
  <1>2. PICK p : Laid(text, s, p, n)
    BY LineLaid
  <1> HIDE DEF n, text
  <1>3. Cut(text, "$", p, n)
    BY <1>1, <1>2, LineCut
  <1>4. /\ \A k \in 1 .. n : p[k + 1] # l
        /\ \A k \in 1 .. n : SubSeq(text, p[k] + 1, p[k + 1] - 1) = Written(s[k])
    BY <1>1, <1>2, LaidPieces
  <1>5. /\ text \in Seq(Tokens) /\ l >= 2 /\ text[1] = "chain" /\ text[2] = " "
        /\ \A m \in 0 .. n + 1 : p[m] \in Nat
        /\ p[n + 1] = l + 1
    BY <1>2 DEF Laid
  <1>6. text \in Seq(Tokens) /\ l \in Nat
    <2>1. text \in Seq(Tokens)
      BY <1>5
    <2> QED
      BY <2>1
  <1>7. ASSUME NEW k \in Nat, k # 0 PROVE Splice(text, k, "$") # <<>> <=> k \in 1 .. n
    <2>1. CASE k \in 1 .. n
      <3>1. k \in 0 .. n
        BY <2>1
      <3>2. Splice(text, k, "$") = SubSeq(text, p[k] + 1, p[k + 1] - 1)
        <4>1. p[k + 1] # Len(text)
          BY <1>4, <2>1
        <4> QED
          BY <1>1, <1>3, <1>6, <3>1, <4>1, CutSplice
      <3>3. Splice(text, k, "$") = Written(s[k])
        BY <1>4, <2>1, <3>2
      <3>4. Len(Written(s[k])) >= 1
        BY <1>1, <2>1, WrittenPlain
      <3>5. Written(s[k]) # <<>>
        BY <3>4
      <3> QED
        BY <2>1, <3>3, <3>5
    <2>2. CASE k \notin 1 .. n
      <3>1. k > n
        BY <1>1, <1>7, <2>2
      <3>2. Splice(text, k, "$") = <<>>
        BY <1>1, <1>3, <1>6, <3>1, CutSplice
      <3> QED
        BY <2>2, <3>2
    <2> QED
      BY <2>1, <2>2
  <1>8. From(text, 1, " ") = 3
    <2>1. 2 \in 1 .. l /\ 2 + 1 = 3
      <3>1. l >= 2
        BY <1>5
      <3> QED
        BY <1>6, <3>1
    <2>2. ASSUME NEW k \in 1 .. 2 - 1 PROVE text[k] # " "
      <3>1. k = 1
        OBVIOUS
      <3> QED
        BY <1>5, <3>1
    <2>3. text[2] = " "
      BY <1>5
    <2>4. From(text, 1, " ") = 2 + 1
      BY <1>6, <2>1, <2>2, <2>3, FromFirst, Zenon
    <2> QED
      BY <2>1, <2>4
  <1> DEFINE raw == SubSeq(text, 3, Len(text))
             q   == Shifted(p, n)
             r   == Len(raw)
  <1>9. \A k \in 1 .. n + 1 : q[k] = p[k] - 2
    BY DEF Shifted
  <1>10. q = Shifted(p, n) /\ raw = SubSeq(text, 3, Len(text))
    OBVIOUS
  <1> HIDE DEF raw, q
  <1>11. /\ raw \in Seq(Tokens) /\ r = l - 2
         /\ \A k \in 1 .. r : raw[k] = text[k + 2]
         /\ Cut(raw, "$", q, n)
    <2>1. IsBehind(SubSeq(text, 3, Len(text)), text, Shifted(p, n), n)
      BY <1>1, <1>2, RawCut
    <2> QED
      BY <1>10, <2>1 DEF IsBehind
  <1>12. \A k \in 1 .. n + 1 : p[k] >= 3 /\ p[k] <= l + 1
    BY <1>1, <1>2, LaidCut
  <1>13. ASSUME NEW k \in 1 .. n PROVE Splice(raw, k, "$") = Written(s[k])
    <2> DEFINE a == p[k]
               z == p[k + 1]
               v == Written(s[k])
               w == SubSeq(text, a + 1, z - 1)
               x == SubSeq(raw, (a - 2) + 1, (z - 2) - 1)
    <2>1. k \in 1 .. n + 1 /\ k + 1 \in 1 .. n + 1 /\ k \in 0 .. n /\ k \in 0 .. n + 1
          /\ k + 1 \in 0 .. n + 1
      BY <1>1
    <2>2. a \in Nat /\ z \in Nat /\ a >= 3 /\ z <= l + 1 /\ z # l
      BY <1>4, <1>5, <1>12, <2>1
    <2>3. a < z
      BY <1>3, <2>1 DEF Cut
    <2>4. q[k] = a - 2 /\ q[k + 1] = z - 2
      BY <1>9, <2>1
    <2>5. w = v
      BY <1>4
    <2> HIDE DEF l, r
    <2>6. q[k + 1] # r
      <3>1. z \in Nat /\ z # l
        BY <2>2
      <3> HIDE DEF z
      <3>2. z - 2 # l - 2
        BY <1>6, <3>1
      <3> QED
        BY <1>11, <2>4, <3>2
    <2>7. Splice(raw, k, "$") = SubSeq(raw, q[k] + 1, q[k + 1] - 1)
      <3>1. raw \in Seq(Tokens) /\ Cut(raw, "$", q, n) /\ q[k + 1] # Len(raw)
        <4>1. q[k + 1] # Len(raw)
          BY <2>6 DEF r
        <4> QED
          BY <1>11, <4>1, Zenon
      <3> QED
        BY <1>1, <2>1, <3>1, CutSplice
    <2>8. Splice(raw, k, "$") = x
      BY <2>4, <2>7
    <2> HIDE DEF a, z, v
    <2>9. /\ w \in Seq(Tokens) /\ Len(w) = ((z - 1) - (a + 1)) + 1
          /\ \A j \in 1 .. ((z - 1) - (a + 1)) + 1 : w[j] = text[((a + 1) + j) - 1]
      <3>1. /\ a + 1 \in Int /\ z - 1 \in Int /\ 1 <= a + 1 /\ z - 1 <= l /\ a + 1 <= (z - 1) + 1
        BY <1>6, <2>2, <2>3
      <3> QED
        BY <1>6, <3>1, Reading!Part DEF l
    <2>10. /\ x \in Seq(Tokens) /\ Len(x) = (((z - 2) - 1) - ((a - 2) + 1)) + 1
           /\ \A j \in 1 .. (((z - 2) - 1) - ((a - 2) + 1)) + 1 : x[j] = raw[(((a - 2) + 1) + j) - 1]
      <3>1. /\ (a - 2) + 1 \in Int /\ (z - 2) - 1 \in Int /\ 1 <= (a - 2) + 1
            /\ (z - 2) - 1 <= r /\ (a - 2) + 1 <= ((z - 2) - 1) + 1
        BY <1>6, <1>11, <2>2, <2>3
      <3>2. raw \in Seq(Tokens)
        BY <1>11
      <3> QED
        BY <3>1, <3>2, Reading!Part DEF r
    <2> DEFINE e == (z - a) - 1
    <2>11. /\ ((z - 1) - (a + 1)) + 1 = e /\ (((z - 2) - 1) - ((a - 2) + 1)) + 1 = e
           /\ \A j \in 1 .. e : /\ ((a + 1) + j) - 1 = a + j
                                /\ (((a - 2) + 1) + j) - 1 = (a + j) - 2
                                /\ (a + j) - 2 \in 1 .. r /\ ((a + j) - 2) + 2 = a + j
      BY <1>6, <1>11, <2>2, <2>3
    <2> HIDE DEF e, w, x
    <2>12. Len(w) = e /\ Len(x) = e /\ w \in Seq(Tokens) /\ x \in Seq(Tokens)
      BY <2>9, <2>10, <2>11
    <2>13. ASSUME NEW j \in 1 .. e PROVE x[j] = w[j]
      <3>1. w[j] = text[a + j]
        BY <2>9, <2>11
      <3>2. x[j] = raw[(a + j) - 2]
        BY <2>10, <2>11
      <3>3. raw[(a + j) - 2] = text[((a + j) - 2) + 2]
        BY <1>11, <2>11
      <3>4. ((a + j) - 2) + 2 = a + j
        BY <2>11
      <3> QED
        BY <3>1, <3>2, <3>3, <3>4
    <2>14. x = w
      <3>1. Len(x) = Len(w) /\ \A j \in 1 .. Len(x) : x[j] = w[j]
        BY <2>12, <2>13
      <3> QED
        BY <2>12, <3>1, SameText
    <2> QED
      BY <2>5, <2>8, <2>14 DEF v
  <1>14. ASSUME NEW k \in 1 .. n PROVE Piece(text, k) = Written(s[k])
    <2>1. Piece(text, k) = Before(Splice(raw, k, "$"), "$")
      BY <1>8 DEF Piece, raw
    <2>2. Written(s[k]) \in Seq(Plain)
      BY <1>1, WrittenPlain
    <2> DEFINE v == Written(s[k])
    <2> HIDE DEF v
    <2>3. v \in Seq(Plain)
      BY <2>2 DEF v
    <2>4. \A j \in 1 .. Len(v) : v[j] # "$"
      <3>1. \A j \in 1 .. Len(v) : v[j] \in Plain
        BY <2>3
      <3> QED
        BY <3>1 DEF Plain
    <2>5. Before(v, "$") = v
      BY <2>3, <2>4, BeforeNone
    <2> QED
      BY <1>13, <2>1, <2>5 DEF v
  <1> QED
    BY <1>6, <1>7, <1>14 DEF n, text

-----------------------------------------------------------------------------
(* What a statement says when chain reads it.                              *)

LEMMA FrontIs ==
    ASSUME NEW S, NEW a \in Seq(S), NEW b \in Seq(S)
    PROVE  SubSeq(a \o b, 1, Len(a)) = a
  <1> DEFINE ab == a \o b
             n  == Len(a)
             m  == Len(b)
             x  == SubSeq(ab, 1, n)
  <1>1. n \in Nat /\ m \in Nat
    OBVIOUS
  <1>2. /\ ab \in Seq(S) /\ Len(ab) = n + m
        /\ \A k \in 1 .. n : ab[k] = a[k]
    BY Concat
  <1> HIDE DEF ab, n, m
  <1>3. 1 \in Int /\ n \in Int /\ 1 <= 1 /\ n <= Len(ab) /\ 1 <= n + 1 /\ (n - 1) + 1 = n
        /\ \A k \in 1 .. n : (1 + k) - 1 = k
    BY <1>1, <1>2
  <1>4. /\ x \in Seq(S) /\ Len(x) = (n - 1) + 1
        /\ \A k \in 1 .. (n - 1) + 1 : x[k] = ab[(1 + k) - 1]
    BY <1>2, <1>3, Reading!Part
  <1> HIDE DEF x
  <1>5. Len(x) = n /\ x \in Seq(S) /\ \A k \in 1 .. n : x[k] = a[k]
    BY <1>2, <1>3, <1>4
  <1>6. Len(x) = Len(a) /\ \A k \in 1 .. Len(x) : x[k] = a[k]
    BY <1>5 DEF n
  <1>7. x = a
    BY <1>5, <1>6, SameText
  <1> QED
    BY <1>7 DEF x, ab, n

LEMMA BackIs ==
    ASSUME NEW S, NEW a \in Seq(S), NEW b \in Seq(S)
    PROVE  SubSeq(a \o b, Len(a) + 1, Len(a) + Len(b)) = b
  <1> DEFINE ab == a \o b
             m  == Len(a)
             n  == Len(b)
             x  == SubSeq(ab, m + 1, m + n)
  <1>1. m \in Nat /\ n \in Nat
    OBVIOUS
  <1>2. /\ ab \in Seq(S) /\ Len(ab) = m + n
        /\ \A k \in 1 .. n : ab[m + k] = b[k]
    BY Concat
  <1> HIDE DEF ab, m, n
  <1>3. /\ m + 1 \in Int /\ m + n \in Int /\ 1 <= m + 1 /\ m + n <= Len(ab) /\ m + 1 <= (m + n) + 1
        /\ ((m + n) - (m + 1)) + 1 = n
        /\ \A k \in 1 .. n : ((m + 1) + k) - 1 = m + k
    BY <1>1, <1>2
  <1>4. /\ x \in Seq(S) /\ Len(x) = ((m + n) - (m + 1)) + 1
        /\ \A k \in 1 .. ((m + n) - (m + 1)) + 1 : x[k] = ab[((m + 1) + k) - 1]
    BY <1>2, <1>3, Reading!Part
  <1> HIDE DEF x
  <1>5. Len(x) = n /\ x \in Seq(S) /\ \A k \in 1 .. n : x[k] = b[k]
    BY <1>2, <1>3, <1>4
  <1>6. Len(x) = Len(b) /\ \A k \in 1 .. Len(x) : x[k] = b[k]
    BY <1>5 DEF n
  <1>7. x = b
    BY <1>5, <1>6, SameText
  <1> QED
    BY <1>7 DEF x, ab, m, n

(* Behind the first token.                                                 *)
LEMMA TailIs ==
    ASSUME NEW S, NEW c \in S, NEW t \in Seq(S)
    PROVE  /\ <<c>> \o t \in Seq(S) /\ <<c>> \o t # <<>> /\ (<<c>> \o t)[1] = c
           /\ Tail(<<c>> \o t) = t
  <1> DEFINE b == <<c>>
             w == b \o t
             n == Len(t)
  <1>1. b \in Seq(S) /\ Len(b) = 1 /\ b[1] = c
    OBVIOUS
  <1>2. n \in Nat /\ 1 \in 1 .. 1
    OBVIOUS
  <1> HIDE DEF b, n
  <1>3. /\ w \in Seq(S) /\ Len(w) = Len(b) + n
        /\ \A k \in 1 .. Len(b) : w[k] = b[k]
    BY <1>1, Concat, Zenon DEF n
  <1>4. SubSeq(w, Len(b) + 1, Len(b) + n) = t
    BY <1>1, BackIs, Zenon DEF n
  <1> HIDE DEF w
  <1>5. Len(w) = 1 + n /\ w[1] = c
    BY <1>1, <1>2, <1>3
  <1>6. w # <<>>
    BY <1>2, <1>5
  <1>7. Tail(w) = SubSeq(w, 2, Len(w))
    BY <1>3, <1>6, TailIsSubSeq, Zenon
  <1>8. Len(b) + 1 = 2 /\ Len(b) + n = Len(w)
    BY <1>1, <1>3
  <1>9. Tail(w) = t
    BY <1>4, <1>7, <1>8
  <1> QED
    BY <1>3, <1>5, <1>6, <1>9 DEF w, b

(* A text between two marks.                                               *)
LEMMA BetweenMarks ==
    ASSUME NEW S, NEW c \in S, NEW t \in Seq(S), \A k \in 1 .. Len(t) : t[k] # c
    PROVE  /\ <<c>> \o (t \o <<c>>) # <<>> /\ (<<c>> \o (t \o <<c>>))[1] = c
           /\ Before(Tail(<<c>> \o (t \o <<c>>)), c) = t
  <1> DEFINE u == t \o <<c>>
             n == Len(t)
             b == <<c>>
  <1>1. /\ u \in Seq(S) /\ Len(u) = n + 1
        /\ \A k \in 1 .. n : u[k] = t[k]
        /\ u[n + 1] = c
    BY OneMore
  <1>2. n \in Nat /\ b \in Seq(S)
    OBVIOUS
  <1>3. SubSeq(u, 1, n) = t
    BY <1>2, FrontIs, Zenon
  <1> HIDE DEF u, n
  <1>4. n + 1 \in 1 .. Len(u) /\ (n + 1) - 1 = n /\ \A k \in 1 .. n : u[k] # c
    BY <1>1, <1>2 DEF n
  <1>5. Before(u, c) = SubSeq(u, 1, (n + 1) - 1)
    <2>1. \A k \in 1 .. (n + 1) - 1 : u[k] # c
      BY <1>4
    <2> QED
      BY <1>1, <1>4, <2>1, BeforeFirst, Zenon
  <1>6. <<c>> \o u # <<>> /\ (<<c>> \o u)[1] = c /\ Tail(<<c>> \o u) = u
    <2>1. u \in Seq(S)
      BY <1>1
    <2> QED
      BY <2>1, TailIs
  <1> QED
    BY <1>3, <1>4, <1>5, <1>6 DEF u

(* Two texts with a delimiter between them, taken apart again.             *)
LEMMA BothPieces ==
    ASSUME NEW S, NEW d \in S, NEW a \in Seq(S), NEW b \in Seq(S), Len(b) >= 1,
           \A k \in 1 .. Len(a) : a[k] # d, \A k \in 1 .. Len(b) : b[k] # d
    PROVE  /\ Splice(a \o <<d>> \o b, 0, d) = a
           /\ Splice(a \o <<d>> \o b, 1, d) = b
  <1> DEFINE m  == Len(a)
             n  == Len(b)
             ad == a \o <<d>>
             w  == ad \o b
             l  == Len(w)
             p  == [k \in 0 .. 2 |-> IF k = 0 THEN 0 ELSE IF k = 1 THEN m + 1 ELSE l + 1]
  <1>1. m \in Nat /\ n \in Nat /\ n >= 1 /\ <<d>> \in Seq(S)
    OBVIOUS
  <1>2. /\ ad \in Seq(S) /\ Len(ad) = m + 1
        /\ \A k \in 1 .. m : ad[k] = a[k]
        /\ ad[m + 1] = d
    BY OneMore
  <1> HIDE DEF ad, n
  <1>3. /\ w \in Seq(S) /\ l = Len(ad) + n
        /\ \A k \in 1 .. Len(ad) : w[k] = ad[k]
        /\ \A k \in 1 .. n : w[Len(ad) + k] = b[k]
    <2>1. ad \in Seq(S)
      BY <1>2
    <2> QED
      BY <2>1, Concat DEF n
  <1>4. SubSeq(w, Len(ad) + 1, Len(ad) + n) = b
    BY <1>2, BackIs, Zenon DEF n
  <1>5. w = a \o (<<d>> \o b)
    BY <1>1, ConcatAssociative DEF ad
  <1>6. <<d>> \o b \in Seq(S)
    BY TailIs, Zenon
  <1>7. SubSeq(w, 1, m) = a
    BY <1>5, <1>6, FrontIs, Zenon
  <1> HIDE DEF w, m
  <1>8. l = (m + 1) + n /\ l \in Nat
    BY <1>1, <1>2, <1>3
  <1> HIDE DEF l
  <1>9. p[0] = 0 /\ p[1] = m + 1 /\ p[2] = l + 1
    OBVIOUS
  <1> HIDE DEF p
  <1>10. Cut(w, d, p, 1)
    <2>1. \A k \in 0 .. 1 + 1 : p[k] \in Nat
      <3>1. \A k \in 0 .. 1 + 1 : k = 0 \/ k = 1 \/ k = 2
        OBVIOUS
      <3>2. p[0] \in Nat /\ p[1] \in Nat /\ p[2] \in Nat
        BY <1>1, <1>8, <1>9
      <3> QED
        BY <3>1, <3>2
    <2>2. ASSUME NEW k \in 0 .. 1
          PROVE  p[k] < p[k + 1] /\ \A j \in p[k] + 1 .. p[k + 1] - 1 : w[j] # d
      <3>1. CASE k = 0
        <4>1. p[k] = 0 /\ p[k + 1] = m + 1
          BY <1>9, <3>1
        <4>2. p[k] < p[k + 1]
          BY <1>1, <4>1
        <4>3. ASSUME NEW j \in p[k] + 1 .. p[k + 1] - 1 PROVE w[j] # d
          <5>1. j \in 1 .. m /\ j \in 1 .. m + 1
            BY <1>1, <4>1
          <5> QED
            BY <1>2, <1>3, <5>1 DEF m
        <4> QED
          BY <4>2, <4>3
      <3>2. CASE k = 1
        <4>1. p[k] = m + 1 /\ p[k + 1] = l + 1
          BY <1>9, <3>2
        <4>2. p[k] < p[k + 1]
          BY <1>1, <1>8, <4>1
        <4>3. ASSUME NEW j \in p[k] + 1 .. p[k + 1] - 1 PROVE w[j] # d
          <5>1. j - (m + 1) \in 1 .. n /\ (m + 1) + (j - (m + 1)) = j
            BY <1>1, <1>8, <4>1
          <5>2. w[j] = b[j - (m + 1)]
            BY <1>2, <1>3, <5>1
          <5> QED
            BY <5>1, <5>2 DEF n
        <4> QED
          BY <4>2, <4>3
      <3>3. k = 0 \/ k = 1
        OBVIOUS
      <3> QED
        BY <3>1, <3>2, <3>3
    <2>3. ASSUME NEW k \in 1 .. 1 PROVE w[p[k]] = d
      <3>1. k = 1 /\ m + 1 \in 1 .. m + 1
        BY <1>1
      <3> QED
        BY <1>2, <1>3, <1>9, <3>1
    <2>4. p[1 + 1] = Len(w) + 1 /\ p[0] = 0
      BY <1>9 DEF l
    <2> QED
      BY <2>1, <2>2, <2>3, <2>4 DEF Cut
  <1>11. Splice(w, 0, d) = a
    <2>1. 0 \in 0 .. 1 /\ 1 \in Nat /\ 0 + 1 = 1
      OBVIOUS
    <2>2. p[0 + 1] # Len(w)
      BY <1>1, <1>8, <1>9 DEF l
    <2>3. Splice(w, 0, d) = SubSeq(w, p[0] + 1, p[0 + 1] - 1)
      <3>1. w \in Seq(S)
        BY <1>3
      <3> QED
        BY <1>10, <2>1, <2>2, <3>1, CutSplice
    <2>4. p[0] + 1 = 1 /\ p[0 + 1] - 1 = m
      BY <1>1, <1>9
    <2> QED
      BY <1>7, <2>3, <2>4
  <1>12. Splice(w, 1, d) = b
    <2>1. 1 \in 0 .. 1 /\ 1 \in Nat
      OBVIOUS
    <2>2. p[1 + 1] # Len(w)
      BY <1>8, <1>9 DEF l
    <2>3. Splice(w, 1, d) = SubSeq(w, p[1] + 1, p[1 + 1] - 1)
      <3>1. w \in Seq(S)
        BY <1>3
      <3> QED
        BY <1>10, <2>1, <2>2, <3>1, CutSplice
    <2>4. p[1] + 1 = Len(ad) + 1 /\ p[1 + 1] - 1 = Len(ad) + n
      BY <1>1, <1>2, <1>8, <1>9
    <2> QED
      BY <1>4, <2>3, <2>4
  <1> QED
    BY <1>11, <1>12 DEF w, ad

LEMMA ReadPrint ==
    ASSUME NEW s \in Statement, s.op = "print"
    PROVE  Written(s) # <<>> /\ Written(s)[1] = "\""
  <1> DEFINE q == "\""
             t == s.text
  <1>1. Written(s) = <<q, t, q>>
    BY WrittenAs
  <1> HIDE DEF q, t
  <1>2. Len(<<q, t, q>>) = 3 /\ <<q, t, q>>[1] = q
    OBVIOUS
  <1>3. Written(s)[1] = q /\ Written(s) # <<>>
    BY <1>1, <1>2
  <1> QED
    BY <1>3 DEF q

LEMMA ReadGoto ==
    ASSUME NEW s \in Statement, s.op = "goto"
    PROVE  /\ Written(s) # <<>> /\ Written(s)[1] = "@"
           /\ Atoi(Before(Tail(Written(s)), "@")) = s.to
  <1> DEFINE c == "@"
             t == Decimal[s.to]
  <1>1. s.to \in Nat
    BY Kind
  <1>2. t \in Seq(DigitSet) /\ Atoi(t) = s.to
    BY <1>1, DecimalRead
  <1>3. c \in Plain
    BY MarksPlain
  <1>4. t \in Seq(Plain)
    BY <1>1, DecimalPlain
  <1>5. \A k \in 1 .. Len(t) : t[k] # c
    <2> HIDE DEF c, t
    <2>1. \A k \in 1 .. Len(t) : t[k] \in DigitSet
      BY <1>2
    <2> QED
      BY <2>1, DigitsPlain DEF c
  <1>6. Written(s) = <<c>> \o t \o <<c>>
    BY WrittenAs
  <1> HIDE DEF c, t
  <1>7. <<c>> \in Seq(Plain)
    BY <1>3
  <1>8. Written(s) = <<c>> \o (t \o <<c>>)
    BY <1>4, <1>6, <1>7, ConcatAssociative
  <1>9. Written(s) # <<>> /\ Written(s)[1] = c /\ Before(Tail(Written(s)), c) = t
    BY <1>3, <1>4, <1>5, <1>8, BetweenMarks
  <1> QED
    BY <1>2, <1>9, Zenon DEF c

LEMMA ReadIf ==
    ASSUME NEW s \in Statement, s.op = "if"
    PROVE  /\ Written(s) # <<>> /\ Written(s)[1] = "~"
           /\ Atoi(Splice(Before(Tail(Written(s)), "~"), 0, ":")) = s.is
           /\ Atoi(Splice(Before(Tail(Written(s)), "~"), 1, ":")) = s.to
  <1> DEFINE c == "~"
             d == ":"
             a == Decimal[s.is]
             b == Decimal[s.to]
             t == a \o <<d>> \o b
  <1>1. s.to \in Nat /\ s.is \in Nat
    BY Kind
  <1>2. a \in Seq(DigitSet) /\ Atoi(a) = s.is /\ b \in Seq(DigitSet) /\ Atoi(b) = s.to /\ Len(b) >= 1
    BY <1>1, DecimalRead
  <1>3. c \in Plain /\ d \in Plain /\ c # d
    BY MarksPlain
  <1>4. a \in Seq(Plain) /\ b \in Seq(Plain)
    BY <1>1, DecimalPlain
  <1>5. Written(s) = <<c>> \o a \o <<d>> \o b \o <<c>>
    BY WrittenAs
  <1> HIDE DEF a, b
  <1>6. \A e \in DigitSet : e # c /\ e # d
    BY DigitsPlain
  <1> HIDE DEF c, d
  <1>7. (\A k \in 1 .. Len(a) : a[k] # c /\ a[k] # d) /\ \A k \in 1 .. Len(b) : b[k] # c /\ b[k] # d
    <2>1. (\A k \in 1 .. Len(a) : a[k] \in DigitSet) /\ \A k \in 1 .. Len(b) : b[k] \in DigitSet
      BY <1>2
    <2> QED
      BY <1>6, <2>1
  <1> DEFINE ad == a \o <<d>>
  <1>8. <<c>> \in Seq(Plain) /\ <<d>> \in Seq(Plain)
    BY <1>3
  <1>9. /\ ad \in Seq(Plain) /\ Len(ad) = Len(a) + 1
        /\ \A k \in 1 .. Len(a) : ad[k] = a[k]
        /\ ad[Len(a) + 1] = d
    BY <1>3, <1>4, OneMore
  <1>10. /\ t \in Seq(Plain) /\ Len(t) = Len(ad) + Len(b)
         /\ \A k \in 1 .. Len(ad) : t[k] = ad[k]
         /\ \A k \in 1 .. Len(b) : t[Len(ad) + k] = b[k]
    <2>1. ad \in Seq(Plain)
      BY <1>9
    <2> HIDE DEF ad
    <2>2. /\ ad \o b \in Seq(Plain) /\ Len(ad \o b) = Len(ad) + Len(b)
          /\ \A k \in 1 .. Len(ad) : (ad \o b)[k] = ad[k]
          /\ \A k \in 1 .. Len(b) : (ad \o b)[Len(ad) + k] = b[k]
      BY <1>4, <2>1, Concat
    <2> QED
      BY <2>2 DEF ad
  <1>11. Splice(t, 0, d) = a /\ Splice(t, 1, d) = b
    BY <1>2, <1>3, <1>4, <1>7, BothPieces
  <1> DEFINE m == Len(a)
             n == Len(b)
  <1>12. m \in Nat /\ n \in Nat
    BY <1>4
  <1>13. ASSUME NEW k \in 1 .. Len(t) PROVE t[k] # c
    <2> HIDE DEF t, ad, m, n
    <2>1. Len(t) = (m + 1) + n /\ Len(ad) = m + 1
      BY <1>9, <1>10 DEF m, n
    <2>2. k \in 1 .. m \/ k = m + 1 \/ (k - (m + 1) \in 1 .. n /\ (m + 1) + (k - (m + 1)) = k)
      BY <1>12, <2>1
    <2>3. CASE k \in 1 .. m
      <3>1. k \in 1 .. m + 1
        BY <1>12, <2>3
      <3>2. t[k] = a[k]
        BY <1>9, <1>10, <2>1, <2>3, <3>1 DEF m
      <3> QED
        BY <1>7, <2>3, <3>2 DEF m
    <2>4. CASE k = m + 1
      <3>1. k \in 1 .. m + 1
        BY <1>12, <2>4
      <3>2. t[k] = d
        BY <1>9, <1>10, <2>1, <2>4, <3>1 DEF m
      <3> QED
        BY <1>3, <3>2
    <2>5. CASE k - (m + 1) \in 1 .. n /\ (m + 1) + (k - (m + 1)) = k
      <3>1. t[k] = b[k - (m + 1)]
        BY <1>10, <2>1, <2>5 DEF n
      <3> QED
        BY <1>7, <2>5, <3>1 DEF n
    <2> QED
      BY <2>2, <2>3, <2>4, <2>5
  <1>14. Written(s) = <<c>> \o (t \o <<c>>)
    <2>1. ((<<c>> \o a) \o <<d>>) = <<c>> \o ad
      BY <1>4, <1>8, ConcatAssociative
    <2>2. (<<c>> \o ad) \o b = <<c>> \o t
      <3>1. ad \in Seq(Plain)
        BY <1>9
      <3> HIDE DEF ad
      <3>2. (<<c>> \o ad) \o b = <<c>> \o (ad \o b)
        BY <1>4, <1>8, <3>1, ConcatAssociative
      <3> QED
        BY <3>2 DEF ad
    <2>3. t \in Seq(Plain)
      BY <1>10
    <2>4. Written(s) = (<<c>> \o t) \o <<c>>
      BY <1>5, <2>1, <2>2
    <2> HIDE DEF t
    <2> QED
      BY <1>8, <2>3, <2>4, ConcatAssociative
  <1>15. t \in Seq(Plain)
    BY <1>10
  <1> HIDE DEF t
  <1>16. Written(s) # <<>> /\ Written(s)[1] = c /\ Before(Tail(Written(s)), c) = t
    BY <1>3, <1>13, <1>14, <1>15, BetweenMarks
  <1> QED
    BY <1>2, <1>11, <1>16, Zenon DEF c, d

LEMMA ReadRun ==
    ASSUME NEW s \in Statement, s.op = "run"
    PROVE  /\ Written(s) # <<>> /\ Written(s)[1] = s.prog /\ s.prog \notin Marks
           /\ Splice(Written(s), 0, " ") = <<s.prog>>
  <1> DEFINE c == " "
             g == s.prog
             x == s.arg
             r == IF x = <<>> THEN <<>> ELSE <<c>> \o x
             w == <<g>> \o r
             l == Len(w)
  <1>1. g \in Text /\ g \notin Marks /\ g # c /\ x \in Seq(Text)
    BY Kind
  <1>2. g \in Plain /\ c \in Plain
    BY <1>1, MarksPlain, TextPlain
  <1>3. Written(s) = w
    BY WrittenAs
  <1> HIDE DEF c, g, x
  <1>4. x \in Seq(Plain)
    <2>1. Text \subseteq Plain
      BY TextPlain
    <2>2. x \in Seq(Text)
      BY <1>1
    <2> QED
      BY <2>1, <2>2
  <1>5. <<g>> \in Seq(Plain) /\ Len(<<g>>) = 1 /\ <<g>>[1] = g
    BY <1>2
  <1>6. r \in Seq(Plain) /\ (r # <<>> => r[1] = c /\ Len(r) >= 2)
    <2>1. CASE x = <<>>
      BY <2>1
    <2>2. CASE x # <<>>
      <3>1. r = <<c>> \o x
        BY <2>2
      <3> HIDE DEF r
      <3>2. r \in Seq(Plain) /\ r # <<>> /\ r[1] = c /\ Tail(r) = x
        BY <1>2, <1>4, <3>1, TailIs
      <3>3. r \in Seq(Plain) /\ r # <<>>
        BY <3>2
      <3>4. Len(Tail(r)) = Len(r) - 1 /\ Len(r) \in Nat
        BY <3>3
      <3>5. Len(x) >= 1
        BY <1>4, <2>2
      <3>6. Len(x) = Len(r) - 1 /\ Len(r) \in Nat
        BY <3>2, <3>4, Zenon
      <3>7. Len(r) >= 2
        BY <3>5, <3>6
      <3> QED
        BY <3>2, <3>7
    <2> QED
      BY <2>1, <2>2
  <1> HIDE DEF r
  <1>7. w \in Seq(Plain) /\ w # <<>> /\ w[1] = g /\ Tail(w) = r
    BY <1>2, <1>6, TailIs
  <1>8. SubSeq(w, 1, 1) = <<g>>
    <2>1. SubSeq(w, 1, Len(<<g>>)) = <<g>>
      BY <1>5, <1>6, FrontIs
    <2> QED
      BY <1>5, <2>1
  <1> DEFINE ends == {k \in 1 .. l - 1 : w[k] = c}
  <1> HIDE DEF w
  <1>9. l \in Nat /\ l >= 1 /\ Len(r) = l - 1
    <2>1. w \in Seq(Plain) /\ w # <<>>
      BY <1>7
    <2>2. l \in Nat /\ l >= 1 /\ Len(Tail(w)) = l - 1
      BY <2>1
    <2> QED
      BY <1>7, <2>2, Zenon
  <1>10. l # 1 => w[2] = c /\ l >= 3
    <2> SUFFICES ASSUME l # 1 PROVE w[2] = c /\ l >= 3
      OBVIOUS
    <2> HIDE DEF l
    <2>1. Len(r) \in Nat /\ Len(r) >= 1
      BY <1>9
    <2>2. r # <<>>
      BY <2>1
    <2>3. r[1] = c /\ Len(r) >= 2
      BY <1>6, <2>2
    <2>4. 1 \in 1 .. Len(Tail(w)) /\ 1 + 1 = 2
      BY <1>7, <2>1
    <2>5. Tail(w)[1] = w[1 + 1]
      BY <1>7, <2>4, HeadTailProperties, Zenon
    <2>6. l >= 3
      BY <1>9, <2>3
    <2> QED
      BY <1>7, <2>3, <2>4, <2>5, <2>6
  <1>11. \A k \in ends : k >= 2
    <2> SUFFICES ASSUME NEW k \in ends PROVE k >= 2
      OBVIOUS
    <2>1. k \in 1 .. l - 1 /\ w[k] = c
      OBVIOUS
    <2>2. k # 1
      BY <1>1, <1>7, <2>1
    <2> QED
      BY <1>9, <2>1, <2>2
  <1>12. (l = 1 => ends = {}) /\ (l # 1 => 2 \in ends) /\ ends \in SUBSET Nat
    <2> HIDE DEF l
    <2>1. l # 1 => 2 \in 1 .. l - 1
      BY <1>9, <1>10
    <2>2. l = 1 => 1 .. l - 1 = {}
      OBVIOUS
    <2> QED
      BY <1>9, <1>10, <2>1, <2>2
  <1>13. Splice(w, 0, c) = SubSeq(w, 1, IF ends = {} THEN l ELSE Min(ends) - 1)
    BY DEF Splice, From
  <1> HIDE DEF ends, l
  <1>14. Splice(w, 0, c) = SubSeq(w, 1, 1)
    <2>1. CASE l = 1
      BY <1>12, <1>13, <2>1
    <2>2. CASE l # 1
      <3>1. ends # {} /\ ends \in SUBSET Nat
        BY <1>12, <2>2
      <3>2. Min(ends) \in ends /\ Min(ends) <= 2
        BY <1>12, <2>2, <3>1, MinIs
      <3>3. Min(ends) >= 2 /\ Min(ends) \in Nat
        BY <1>11, <3>1, <3>2
      <3>4. Min(ends) - 1 = 1
        BY <3>2, <3>3
      <3> QED
        BY <1>13, <3>1, <3>4
    <2> QED
      BY <2>1, <2>2
  <1> QED
    BY <1>1, <1>3, <1>7, <1>8, <1>14 DEF c, g

-----------------------------------------------------------------------------
(* Where chain is in the script that the user has typed.                   *)

Known == input \in DOMAIN ScriptOf

Booted == pc \notin {"loader", "halted"} => bootable # {} /\ system = Min(bootable)

Runs(s, k) == k \in 1 .. Len(s) /\ s[k].op = "run"

(* The statement that is executed is the i-th of the script, and while its *)
(* program runs i stays.                                                   *)
Following(s) ==
    /\ pc \in {"chain", "statement"} => i >= 1
    /\ pc = "next" => i >= 0
    /\ pc = "statement" => i \in 1 .. Len(s) /\ cmd = Written(s[i])
    /\ depth = 1 /\ pc = "execute" => Runs(s, i) /\ call.cmd = <<s[i].prog>>
    /\ depth = 2 => Runs(s, i) /\ s[i].prog \in ProgramsOn[system]

ChainInv == Booted /\ (Known => Following(ScriptOf[input]))

(* The script of a line is one that the line was made of.                  *)
LEMMA ScriptIs ==
    ASSUME NEW line \in DOMAIN ScriptOf
    PROVE  ScriptOf[line] \in Seq(Statement) /\ Line(ScriptOf[line]) = line
  <1>1. line \in {Line(s) : s \in Scripts} /\ ScriptOf[line] = CHOOSE s \in Scripts : Line(s) = line
    BY DEF ScriptOf
  <1>2. ScriptOf[line] \in Scripts /\ Line(ScriptOf[line]) = line
    BY <1>1
  <1> QED
    BY <1>2, ScriptAssumption

(* What chain takes next, when there is something to take.                 *)
LEMMA TakeIs ==
    ASSUME NEW s \in Seq(Statement), Line(s) = input, i \in Int, i >= 1
    PROVE  /\ More <=> i \in 1 .. Len(s)
           /\ Take => i \in 1 .. Len(s) /\ cmd' = Written(s[i])
  <1>1. i \in Nat /\ i # 0
    OBVIOUS
  <1>2. More <=> i \in 1 .. Len(s)
    BY <1>1, LinePieces DEF More
  <1>3. Take => cmd' = Piece(input, i)
    BY DEF Take, Piece
  <1>4. Take => More
    BY DEF Take
  <1>5. i \in 1 .. Len(s) => Piece(input, i) = Written(s[i])
    BY LinePieces
  <1> QED
    BY <1>2, <1>3, <1>4, <1>5

(* The mark a statement begins with tells what it is.                      *)
LEMMA MarkIs ==
    ASSUME NEW s \in Statement, cmd = Written(s), pc = "statement"
    PROVE  /\ Marked("\"") <=> s.op = "print"
           /\ Marked("~") <=> s.op = "if"
           /\ Marked("@") <=> s.op = "goto"
           /\ (\A mark \in Marks : ~Marked(mark)) <=> s.op = "run"
  <1>1. \A mark : Marked(mark) <=> Written(s) # <<>> /\ Written(s)[1] = mark
    BY DEF Marked
  <1>2. CASE s.op = "print"
    <2>1. Written(s) # <<>> /\ Written(s)[1] = "\""
      BY <1>2, ReadPrint
    <2> QED
      BY <1>1, <1>2, <2>1 DEF Marks
  <1>3. CASE s.op = "if"
    <2>1. Written(s) # <<>> /\ Written(s)[1] = "~"
      BY <1>3, ReadIf
    <2> QED
      BY <1>1, <1>3, <2>1 DEF Marks
  <1>4. CASE s.op = "goto"
    <2>1. Written(s) # <<>> /\ Written(s)[1] = "@"
      BY <1>4, ReadGoto
    <2> QED
      BY <1>1, <1>4, <2>1 DEF Marks
  <1>5. CASE s.op = "run"
    <2>1. Written(s) # <<>> /\ Written(s)[1] = s.prog /\ s.prog \notin Marks
      BY <1>5, ReadRun
    <2> QED
      BY <1>1, <1>5, <2>1 DEF Marks
  <1> QED
    BY <1>2, <1>3, <1>4, <1>5, Kind

(* Where the jumps lead.                                                   *)
LEMMA JumpIs ==
    ASSUME NEW s \in Statement, cmd = Written(s), pc = "statement"
    PROVE  /\ JumpIf => /\ s.op = "if" /\ s.to \in Nat \ {0}
                        /\ i' = IF status[1] = s.is THEN s.to - 1 ELSE i
           /\ Jump => s.op = "goto" /\ s.to \in Nat \ {0} /\ i' = s.to - 1
  <1>1. ASSUME JumpIf
        PROVE  /\ s.op = "if" /\ s.to \in Nat \ {0}
               /\ i' = IF status[1] = s.is THEN s.to - 1 ELSE i
    <2>1. Marked("~") /\ cmd[1] = "~"
      BY <1>1 DEF JumpIf, Marked
    <2>2. s.op = "if"
      BY <2>1, MarkIs
    <2>3. s.to \in Nat \ {0}
      BY <2>2, Kind
    <2>4. buff = Before(Tail(Written(s)), "~")
      BY <2>1 DEF buff
    <2>5. Atoi(Splice(buff, 0, ":")) = s.is /\ Atoi(Splice(buff, 1, ":")) = s.to
      BY <2>2, <2>4, ReadIf
    <2>6. i' = IF status[1] = Atoi(Splice(buff, 0, ":")) THEN Atoi(Splice(buff, 1, ":")) - 1 ELSE i
      BY <1>1 DEF JumpIf, Target
    <2> QED
      BY <2>2, <2>3, <2>5, <2>6
  <1>2. ASSUME Jump PROVE s.op = "goto" /\ s.to \in Nat \ {0} /\ i' = s.to - 1
    <2>1. Marked("@") /\ cmd[1] = "@"
      BY <1>2 DEF Jump, Marked
    <2>2. s.op = "goto"
      BY <2>1, MarkIs
    <2>3. s.to \in Nat \ {0}
      BY <2>2, Kind
    <2>4. buff = Before(Tail(Written(s)), "@")
      BY <2>1 DEF buff
    <2>5. Atoi(buff) = s.to
      BY <2>2, <2>4, ReadGoto
    <2>6. i' = Atoi(buff) - 1
      BY <1>2 DEF Jump, Target
    <2> QED
      BY <2>2, <2>3, <2>5, <2>6
  <1> QED
    BY <1>1, <1>2

LEMMA BootedStep ==
    ASSUME MemoryInv, Booted, Next
    PROVE  Booted'
  <1>1. CASE Load
    BY <1>1 DEF Load, Booted
  <1>2. CASE ~Load
    <2>1. pc' \notin {"loader", "halted"} => pc \notin {"loader", "halted"}
      BY <1>2 DEF Next, Step, Chain, Halt, Missing, Execute, Start, Malloc, Work, DriveProgram,
                  ChainStart, Take, PrintText, JumpIf, Jump, Run, Next1, ChainEnd, Type, Allocated,
                  Marked
    <2>2. bootable' = bootable /\ system' = system
      BY <1>2 DEF Next, Step, Chain, Halt, Missing, Execute, Start, Malloc, Work, DriveProgram,
                  ChainStart, Take, PrintText, JumpIf, Jump, Run, Next1, ChainEnd, Type, drives
    <2> QED
      BY <2>1, <2>2 DEF Booted
  <1> QED
    BY <1>1, <1>2

(* The step that starts chain is the only one that changes its line.       *)
LEMMA SameLine ==
    ASSUME Next, ~ChainStart
    PROVE  input' = input
  BY DEF Next, Step, Chain, Load, Halt, Missing, Execute, Start, Malloc, Work, DriveProgram,
         Take, PrintText, JumpIf, Jump, Run, Next1, ChainEnd, Type, chain

LEMMA FollowingStep ==
    ASSUME MemoryInv, Values, NEW s \in Seq(Statement), Line(s) = input, Following(s),
           Next, ~ChainStart
    PROVE  Following(s)'
  <1>1. /\ depth \in Levels /\ i \in Int
        /\ pc \in {"loader", "halted", "prompt"} => depth = 0
        /\ pc = "execute" => depth < 2
        /\ pc \in {"start", "alloc"} => depth > 0
        /\ pc \in {"chain", "statement", "next"} => depth = 1
    BY DEF MemoryInv, Control, Values
  <1>2. depth \in {0, 1, 2}
    BY <1>1 DEF Levels
  <1>3. \A k \in 1 .. Len(s) : s[k] \in Statement
    OBVIOUS
  <1>4. CASE Load \/ Halt
    <2>1. pc' \in {"prompt", "halted"} /\ depth' = depth /\ depth = 0
      BY <1>1, <1>4 DEF Load, Halt
    <2> QED
      BY <2>1 DEF Following
  <1>5. ASSUME NEW line \in Commands, Type(line) PROVE Following(s)'
    <2>1. pc' = "execute" /\ depth' = 0
      BY <1>1, <1>5 DEF Type
    <2> QED
      BY <2>1 DEF Following
  <1>6. CASE Missing
    <2>1. /\ pc = "execute" /\ depth' = depth /\ pc' = Caller(depth) /\ i' = i
          /\ depth = 0 \/ depth = 1
      BY <1>1, <1>2, <1>6 DEF Missing, chain
    <2>2. CASE depth = 0
      BY <2>1, <2>2 DEF Following, Caller
    <2>3. CASE depth = 1
      <3>1. pc' = "next" /\ i \in 1 .. Len(s)
        BY <2>1, <2>3 DEF Following, Caller, Runs
      <3> QED
        BY <2>1, <2>3, <3>1 DEF Following
    <2> QED
      BY <2>1, <2>2, <2>3
  <1>7. CASE Execute
    <2>1. /\ pc = "execute" /\ depth' = depth + 1 /\ pc' = "start" /\ i' = i /\ system' = system
          /\ depth = 0 \/ depth = 1
      BY <1>1, <1>2, <1>7 DEF Execute, chain
    <2>2. CASE depth = 0
      BY <2>1, <2>2 DEF Following
    <2>3. CASE depth = 1
      <3>1. Runs(s, i) /\ call.cmd = <<s[i].prog>>
        BY <2>1, <2>3 DEF Following
      <3>2. PICK p \in ProgramsOn[system] : call.cmd = <<p>>
        BY <1>7 DEF Execute, Found, SearchDrive
      <3>3. p = s[i].prog
        BY <3>1, <3>2
      <3> QED
        BY <2>1, <2>3, <3>1, <3>2, <3>3 DEF Following, Runs
    <2> QED
      BY <2>1, <2>2, <2>3
  <1>8. CASE Start \/ Malloc
    <2>1. /\ pc' = "alloc" /\ depth' = depth /\ i' = i /\ system' = system
      BY <1>8 DEF Start, Malloc, chain, drives
    <2> QED
      BY <2>1 DEF Following, Runs
  <1>9. CASE Work \/ DriveProgram \/ (ChainEnd /\ pc = "alloc")
    <2>1. /\ pc = "alloc" /\ depth' = depth - 1 /\ pc' = Caller(depth - 1) /\ i' = i
          /\ depth = 1 \/ depth = 2
      BY <1>1, <1>2, <1>9 DEF Work, DriveProgram, ChainEnd, Allocated, ReleaseTo, chain
    <2>2. CASE depth = 1
      BY <2>1, <2>2 DEF Following, Caller
    <2>3. CASE depth = 2
      <3>1. pc' = "next" /\ depth' = 1 /\ i \in 1 .. Len(s)
        BY <2>1, <2>3 DEF Following, Caller, Runs
      <3> QED
        BY <2>1, <3>1 DEF Following
    <2> QED
      BY <2>1, <2>2, <2>3
  <1>10. CASE ChainEnd /\ pc = "chain"
    <2>1. depth' = 0 /\ pc' = "prompt"
      BY <1>1, <1>10 DEF ChainEnd, ReleaseTo, Caller
    <2> QED
      BY <2>1 DEF Following
  <1>11. CASE Take
    <2>1. pc = "chain" /\ pc' = "statement" /\ i' = i /\ depth' = depth /\ depth = 1
      BY <1>1, <1>11 DEF Take
    <2>2. i >= 1
      BY <2>1 DEF Following
    <2>3. i \in 1 .. Len(s) /\ cmd' = Written(s[i])
      BY <1>1, <1>11, <2>2, TakeIs
    <2> QED
      BY <2>1, <2>2, <2>3 DEF Following
  <1>12. CASE PrintText
    <2>1. pc = "statement" /\ pc' = "next" /\ i' = i /\ depth' = depth /\ depth = 1
      BY <1>1, <1>12 DEF PrintText, Marked, chain
    <2>2. i >= 1
      BY <2>1 DEF Following
    <2> QED
      BY <1>1, <2>1, <2>2 DEF Following
  <1>13. CASE JumpIf \/ Jump
    <2>1. pc = "statement" /\ pc' = "next" /\ depth' = depth /\ depth = 1
      BY <1>1, <1>13 DEF JumpIf, Jump, Marked
    <2>2. i >= 1 /\ i \in 1 .. Len(s) /\ cmd = Written(s[i])
      BY <2>1 DEF Following
    <2> DEFINE t == s[i].to
    <2>3. s[i] \in Statement
      BY <1>3, <2>2
    <2>4. i' = i \/ (t \in Nat \ {0} /\ i' = t - 1)
      BY <1>13, <2>1, <2>2, <2>3, JumpIs
    <2> HIDE DEF t
    <2>5. i' >= 0
      BY <1>1, <2>2, <2>4
    <2> QED
      BY <2>1, <2>5 DEF Following
  <1>14. CASE Run
    <2>1. /\ pc = "statement" /\ pc' = "execute" /\ i' = i /\ depth' = depth /\ depth = 1
          /\ call' = [cmd |-> Splice(cmd, 0, " "), args |-> cmd]
          /\ \A mark \in Marks : ~Marked(mark)
      BY <1>1, <1>14 DEF Run, chain
    <2>2. i \in 1 .. Len(s) /\ cmd = Written(s[i])
      BY <2>1 DEF Following
    <2>3. s[i] \in Statement
      BY <1>3, <2>2
    <2>4. s[i].op = "run"
      BY <2>1, <2>2, <2>3, MarkIs
    <2>5. Splice(cmd, 0, " ") = <<s[i].prog>>
      BY <2>2, <2>3, <2>4, ReadRun
    <2>6. call'.cmd = <<s[i].prog>>
      BY <2>1, <2>5
    <2> QED
      <3>1. pc' = "execute" /\ depth' = 1 /\ i' = i
        BY <2>1
      <3>2. Runs(s, i)'
        BY <2>2, <2>4, <3>1 DEF Runs
      <3>3. call'.cmd = <<s[i'].prog>>
        BY <2>6, <3>1
      <3> QED
        <4>1. ~(pc' \in {"chain", "statement"}) /\ pc' # "next" /\ pc' # "statement" /\ depth' # 2
          BY <3>1
        <4> QED
          BY <3>2, <3>3, <4>1, Zenon DEF Following
  <1>15. CASE Next1
    <2>1. pc = "next" /\ pc' = "chain" /\ i' = i + 1 /\ depth' = depth /\ depth = 1
      BY <1>1, <1>15 DEF Next1, Increment
    <2>2. i >= 0
      BY <2>1 DEF Following
    <2>3. i' >= 1
      BY <1>1, <2>1, <2>2
    <2> QED
      BY <2>1, <2>3 DEF Following
  <1>16. ChainEnd => pc \in {"alloc", "chain"}
    BY DEF ChainEnd, Allocated
  <1> QED
    BY <1>4, <1>5, <1>6, <1>7, <1>8, <1>9, <1>10, <1>11, <1>12, <1>13, <1>14, <1>15, <1>16
       DEF Next, Step, Chain

LEMMA ChainStep ==
    ASSUME MemoryInv, Values, ChainInv, [Next]_vars
    PROVE  ChainInv'
  <1>1. CASE UNCHANGED vars
    BY <1>1 DEF ChainInv, Booted, Known, Following, Runs, vars
  <1>2. CASE ChainStart
    <2>1. Booted'
      BY <1>2, BootedStep DEF ChainInv, Next, Step, Chain
    <2>2. i' = 1 /\ pc' = "chain" /\ depth' = 1
      BY <1>2 DEF ChainStart
    <2>3. Following(ScriptOf[input])'
      BY <2>2 DEF Following
    <2> QED
      BY <2>1, <2>3 DEF ChainInv
  <1>3. CASE Next /\ ~ChainStart
    <2>1. Booted'
      BY <1>3, BootedStep DEF ChainInv
    <2>2. input' = input
      BY <1>3, SameLine
    <2>3. ASSUME Known PROVE Following(ScriptOf[input])'
      <3> DEFINE s == ScriptOf[input]
      <3>1. s \in Seq(Statement) /\ Line(s) = input /\ Following(s)
        BY <2>3, ScriptIs DEF ChainInv, Known
      <3>2. PICK t \in Seq(Statement) : t = s
        BY <3>1
      <3>3. Following(t)'
        BY <1>3, <3>1, <3>2, FollowingStep
      <3>4. t = ScriptOf[input']
        BY <2>2, <3>2
      <3> QED
        BY <3>3, <3>4
    <2> QED
      BY <2>1, <2>2, <2>3 DEF ChainInv, Known
  <1> QED
    BY <1>1, <1>2, <1>3

LEMMA ValuesInvariance == Spec => []Values
  <1>1. MemoryInv /\ Values /\ [Next]_vars => Values'
    <2>1. ASSUME Values, UNCHANGED vars PROVE Values'
      BY <2>1 DEF Values, vars
    <2> QED
      BY <2>1, ValuesStep
  <1> QED
    BY <1>1, ValuesInit, MemoryInvariance, PTL DEF Spec

LEMMA ChainInvariance == Spec => []ChainInv
  <1>1. Init => ChainInv
    <2> SUFFICES ASSUME Init PROVE ChainInv
      OBVIOUS
    <2>1. pc = "loader" /\ depth = 0
      BY DEF Init
    <2>2. \A s : Following(s)
      BY <2>1 DEF Following
    <2>3. Booted
      BY <2>1 DEF Booted
    <2> QED
      BY <2>2, <2>3, Zenon DEF ChainInv
  <1>2. MemoryInv /\ Values /\ ChainInv /\ [Next]_vars => ChainInv'
    BY ChainStep
  <1> QED
    BY <1>1, <1>2, MemoryInvariance, ValuesInvariance, PTL DEF Spec

-----------------------------------------------------------------------------
(* The steps of chain are the manual's.                                    *)

(* Which mode it is, and what the manual's variables are then.             *)
ModeFacts ==
    /\ ~Known => mode = "idle"
    /\ Known /\ (depth = 2 \/ (depth = 1 /\ pc = "execute")) => mode = "running"
    /\ Known /\ depth # 2 /\ pc \in {"chain", "statement", "next"} => mode = "reading"
    /\ depth # 2 /\ ~(depth = 1 /\ pc = "execute") /\ pc \notin {"chain", "statement", "next"}
          => mode = "idle"
    /\ mode = "idle" => Script = <<>> /\ At = 0 /\ LastExit = 0
    /\ mode # "idle" => /\ Script = ScriptOf[input] /\ LastExit = status[1]
                        /\ At = IF pc = "next" THEN i + 1 ELSE i

LEMMA ModesAre == ModeFacts
  BY DEF ModeFacts, Known, mode, Script, At, LastExit

LEMMA ModesWillBe == ModeFacts'
  BY ModesAre, PTL

LEMMA SameDrive ==
    ASSUME Next
    PROVE  Existing' = Existing
  <1>1. bootable' = bootable
    BY DEF Next, Step, Chain, Load, Halt, Missing, Execute, Start, Malloc, Work, DriveProgram,
           ChainStart, Take, PrintText, JumpIf, Jump, Run, Next1, ChainEnd, Type
  <1> QED
    BY <1>1 DEF Existing

(* A step of another line, or of the shell, is none of the manual's.       *)
LEMMA IdleStutters ==
    ASSUME Next, mode = "idle", mode' = "idle"
    PROVE  UNCHANGED Manual!vars
  <1>1. (Script = <<>> /\ At = 0 /\ LastExit = 0) /\ Script' = <<>> /\ At' = 0 /\ LastExit' = 0
    BY ModesAre, ModesWillBe DEF ModeFacts
  <1> QED
    BY <1>1, SameDrive DEF Manual!vars

LEMMA BeginStep ==
    ASSUME MemoryInv, Values, ChainStart
    PROVE  [Manual!Next]_(Manual!vars)
  <1>1. /\ pc = "alloc" /\ depth = 1 /\ pc' = "chain" /\ depth' = 1 /\ i' = 1
        /\ status' = [status EXCEPT ![1] = 0] /\ status \in [Levels -> 0 .. 2]
    BY DEF ChainStart, Allocated, Values
  <1>2. mode = "idle"
    BY <1>1, ModesAre DEF ModeFacts
  <1>3. Next
    BY DEF Next, Step, Chain
  <1>4. CASE ~Known'
    <2>1. mode' = "idle"
      BY <1>4, ModesWillBe DEF ModeFacts
    <2> QED
      BY <1>2, <1>3, <2>1, IdleStutters
  <1>5. CASE Known'
    <2>1. mode' = "reading"
      BY <1>1, <1>5, ModesWillBe DEF ModeFacts
    <2>2. status'[1] = 0
      <3>1. 1 \in Levels
        BY DEF Levels
      <3>2. DOMAIN status = Levels
        BY <1>1
      <3> QED
        BY <1>1, <3>1, <3>2
    <2>3. At' = i' /\ LastExit' = status'[1]
      BY <1>1, <2>1, ModesWillBe DEF ModeFacts
    <2>4. Existing' = Existing
      BY <1>3, SameDrive
    <2>5. Manual!Begin
      BY <1>1, <1>2, <2>1, <2>2, <2>3, <2>4 DEF Manual!Begin
    <2> QED
      BY <2>5 DEF Manual!Next
  <1> QED
    BY <1>4, <1>5

(* A program that chain has run has returned.                              *)
LEMMA RanStep ==
    ASSUME MemoryInv, Values, ChainInv, Known, Next, input' = input, mode = "running",
           pc' = "next", depth' = 1, i' = i, pc # "next",
           status'[1] \in IF ScriptOf[input][i].prog \in Existing THEN {0, 1} ELSE {2}
    PROVE  Manual!Ran
  <1>1. Known' /\ ScriptOf[input'] = ScriptOf[input]
    BY DEF Known
  <1>2. mode' = "reading"
    BY <1>1, ModesWillBe DEF ModeFacts
  <1>3. At = i /\ Script = ScriptOf[input]
    BY ModesAre DEF ModeFacts
  <1>4. At' = i' + 1 /\ Script' = ScriptOf[input'] /\ LastExit' = status'[1]
    BY <1>2, ModesWillBe DEF ModeFacts
  <1>5. At' = At + 1 /\ Script' = Script
    BY <1>1, <1>3, <1>4
  <1>6. LastExit' \in IF Script[At].prog \in Existing THEN {0, 1} ELSE {2}
    BY <1>3, <1>4
  <1> QED
    BY <1>2, <1>5, <1>6, SameDrive DEF Manual!Ran

(* What execute finds on the drive is what there is.                       *)
LEMMA ExistingIs ==
    ASSUME Booted, pc \notin {"loader", "halted"}
    PROVE  Existing = ProgramsOn[system]
  BY DEF Booted, Existing

LEMMA ReleaseRan ==
    ASSUME MemoryInv, Values, ChainInv, Known, Next, input' = input, depth = 2, pc = "alloc",
           NEW value \in {0, 1}, ReleaseTo(depth - 1, value), i' = i
    PROVE  Manual!Ran
  <1>1. mode = "running"
    BY ModesAre DEF ModeFacts
  <1>2. depth - 1 = 1 /\ 1 \in Levels /\ DOMAIN status = Levels
    BY DEF Levels, Values
  <1>3. pc' = "next" /\ depth' = 1 /\ status' = [status EXCEPT ![1] = value]
    BY <1>2 DEF ReleaseTo, Caller
  <1>4. status'[1] = value
    BY <1>2, <1>3
  <1>5. ScriptOf[input][i].prog \in Existing
    <2>1. ScriptOf[input][i].prog \in ProgramsOn[system]
      BY DEF ChainInv, Following
    <2> QED
      BY <2>1, ExistingIs DEF ChainInv
  <1> QED
    BY <1>1, <1>3, <1>4, <1>5, RanStep

(* The statements that do not run a program.                               *)
LEMMA StatementStep ==
    ASSUME MemoryInv, Values, ChainInv, Known, PrintText \/ JumpIf \/ Jump \/ Run
    PROVE  [Manual!Next]_(Manual!vars)
  <1> DEFINE s == ScriptOf[input]
             t == s[i]
  <1>1. /\ pc = "statement" /\ depth = 1 /\ depth' = 1 /\ input' = input /\ status' = status
        /\ pc' = IF Run THEN "execute" ELSE "next"
    <2>1. pc = "statement"
      BY DEF PrintText, JumpIf, Jump, Run, Marked
    <2>2. depth = 1
      BY <2>1 DEF MemoryInv, Control
    <2>3. Run => pc' = "execute"
      BY DEF Run
    <2>4. ~Run => pc' = "next"
      BY DEF PrintText, JumpIf, Jump
    <2>5. depth' = depth /\ input' = input /\ status' = status
      BY DEF PrintText, JumpIf, Jump, Run, chain
    <2> QED
      BY <2>1, <2>2, <2>3, <2>4, <2>5
  <1>2. s \in Seq(Statement) /\ i \in 1 .. Len(s) /\ cmd = Written(t) /\ i \in Int
    BY <1>1, ScriptIs DEF ChainInv, Following, Known, Values
  <1>3. t \in Statement /\ i \in DOMAIN s
    BY <1>2
  <1>4. mode = "reading" /\ Script = s /\ At = i /\ LastExit = status[1]
    BY <1>1, ModesAre DEF ModeFacts
  <1>5. Known' /\ ScriptOf[input'] = s
    BY <1>1 DEF Known
  <1>6. mode' = IF Run THEN "running" ELSE "reading"
    BY <1>1, <1>5, ModesWillBe DEF ModeFacts
  <1>7. Script' = Script /\ LastExit' = LastExit /\ At' = IF Run THEN i' ELSE i' + 1
    BY <1>1, <1>4, <1>5, <1>6, ModesWillBe DEF ModeFacts
  <1>8. Existing' = Existing
    BY SameDrive DEF Next, Step, Chain
  <1> HIDE DEF s
  <1>9. CASE PrintText
    <2>1. i' = i /\ ~Run
      <3>1. i' = i /\ pc' = "next"
        BY <1>9 DEF PrintText, chain
      <3> QED
        BY <3>1 DEF Run
    <2>2. t.op = "print"
      BY <1>1, <1>2, <1>3, <1>9, MarkIs DEF PrintText
    <2>3. Manual!PrintText
      BY <1>3, <1>4, <1>6, <1>7, <1>8, <2>1, <2>2 DEF Manual!PrintText, Manual!Is
    <2> QED
      BY <2>3 DEF Manual!Next
  <1>10. CASE JumpIf
    <2>1. ~Run
      <3>1. pc' = "next"
        BY <1>10 DEF JumpIf
      <3> QED
        BY <3>1 DEF Run
    <2>2. /\ t.op = "if" /\ t.to \in Nat \ {0}
          /\ i' = IF status[1] = t.is THEN t.to - 1 ELSE i
      BY <1>1, <1>2, <1>3, <1>10, JumpIs
    <2>3. At' = IF LastExit = t.is THEN t.to ELSE At + 1
      <3> DEFINE to == t.to
      <3> HIDE DEF to
      <3>1. to \in Nat /\ At' = i' + 1
        BY <1>7, <2>1, <2>2 DEF to
      <3>2. (to - 1) + 1 = to
        BY <3>1
      <3>3. i' = IF LastExit = t.is THEN to - 1 ELSE At
        BY <1>4, <2>2 DEF to
      <3>4. At' = IF LastExit = t.is THEN to ELSE At + 1
        BY <3>1, <3>2, <3>3
      <3> QED
        BY <3>4 DEF to
    <2>4. Manual!If
      BY <1>3, <1>4, <1>6, <1>7, <1>8, <2>1, <2>2, <2>3 DEF Manual!If, Manual!Is
    <2> QED
      BY <2>4 DEF Manual!Next
  <1>11. CASE Jump
    <2>1. ~Run
      <3>1. pc' = "next"
        BY <1>11 DEF Jump
      <3> QED
        BY <3>1 DEF Run
    <2>2. t.op = "goto" /\ t.to \in Nat \ {0} /\ i' = t.to - 1
      BY <1>1, <1>2, <1>3, <1>11, JumpIs
    <2>3. At' = t.to
      <3> DEFINE to == t.to
      <3> HIDE DEF to
      <3>1. to \in Nat /\ i' = to - 1
        BY <2>2 DEF to
      <3>2. (to - 1) + 1 = to
        BY <3>1
      <3> QED
        BY <1>7, <2>1, <3>1, <3>2 DEF to
    <2>4. Manual!Goto
      BY <1>3, <1>4, <1>6, <1>7, <1>8, <2>1, <2>2, <2>3 DEF Manual!Goto, Manual!Is
    <2> QED
      BY <2>4 DEF Manual!Next
  <1>12. CASE Run
    <2>1. i' = i
      BY <1>12 DEF Run, chain
    <2>2. t.op = "run"
      BY <1>1, <1>2, <1>3, <1>12, MarkIs DEF Run
    <2>3. Manual!Run
      BY <1>3, <1>4, <1>6, <1>7, <1>8, <1>12, <2>1, <2>2 DEF Manual!Run, Manual!Is
    <2> QED
      BY <2>3 DEF Manual!Next
  <1> QED
    BY <1>9, <1>10, <1>11, <1>12

(* The script ends where the line does.                                    *)
LEMMA EndStep ==
    ASSUME MemoryInv, Values, ChainInv, Known, ChainEnd, pc = "chain"
    PROVE  [Manual!Next]_(Manual!vars)
  <1> DEFINE s == ScriptOf[input]
  <1>1. depth = 1 /\ ReleaseTo(depth - 1, 0) /\ ~More
    BY DEF ChainEnd, MemoryInv, Control, Allocated
  <1>2. depth' = 0 /\ pc' = "prompt"
    BY <1>1 DEF ReleaseTo, Caller
  <1>3. s \in Seq(Statement) /\ Line(s) = input /\ i \in Int /\ i >= 1
    BY ScriptIs DEF ChainInv, Following, Known, Values
  <1>4. i \notin 1 .. Len(s)
    <2>1. PICK r \in Seq(Statement) : r = s
      BY <1>3
    <2>2. More <=> i \in 1 .. Len(r)
      BY <1>3, <2>1, TakeIs
    <2> QED
      BY <1>1, <2>1, <2>2
  <1>5. mode = "reading" /\ Script = s /\ At = i
    BY <1>1, ModesAre DEF ModeFacts
  <1>6. mode' = "idle"
    BY <1>2, ModesWillBe DEF ModeFacts
  <1>7. Script' = <<>> /\ At' = 0 /\ LastExit' = 0
    BY <1>6, ModesWillBe DEF ModeFacts
  <1>8. Existing' = Existing
    BY SameDrive DEF Next, Step, Chain
  <1>9. At > Len(Script)
    <2>1. Len(s) \in Nat
      BY <1>3
    <2> DEFINE n == Len(s)
    <2> HIDE DEF n
    <2>2. n \in Nat /\ i \in Int /\ i >= 1 /\ i \notin 1 .. n
      BY <1>3, <1>4, <2>1 DEF n
    <2>3. i > n
      BY <2>2
    <2> QED
      BY <1>5, <2>3 DEF n
  <1>10. Manual!End
    BY <1>5, <1>6, <1>7, <1>8, <1>9, Zenon DEF Manual!End
  <1> QED
    BY <1>10 DEF Manual!Next

(* What happens between the statements the manual does not see.            *)
LEMMA HiddenStep ==
    ASSUME MemoryInv, Values, ChainInv, Known, Take \/ Next1 \/ Execute \/ Start \/ Malloc
    PROVE  UNCHANGED Manual!vars
  <1>1. Next
    BY DEF Next, Step, Chain
  <1>2. /\ depth \in {0, 1, 2} /\ i \in Int
        /\ pc = "execute" => depth < 2
        /\ pc \in {"start", "alloc"} => depth > 0
        /\ pc \in {"chain", "statement", "next"} => depth = 1
    BY DEF MemoryInv, Control, Levels, Values
  <1>3. input' = input /\ status' = status
    BY DEF Take, Next1, Execute, Start, Malloc, chain
  <1>4. Known' /\ ScriptOf[input'] = ScriptOf[input]
    BY <1>3 DEF Known
  <1>5. CASE mode = "idle" /\ mode' = "idle"
    BY <1>1, <1>5, IdleStutters
  <1>6. CASE mode' = mode /\ mode # "idle" /\ At' = At
    <2>1. Script' = Script /\ LastExit' = LastExit
      BY <1>3, <1>4, <1>6, ModesAre, ModesWillBe DEF ModeFacts
    <2> QED
      BY <1>1, <1>6, <2>1, SameDrive DEF Manual!vars
  <1>7. CASE Take \/ Next1
    <2>1. /\ pc \in {"chain", "next"} /\ pc' \in {"statement", "chain"} /\ depth' = depth /\ depth = 1
          /\ i' = IF pc = "next" THEN i + 1 ELSE i
      BY <1>2, <1>7 DEF Take, Next1, Increment
    <2>2. mode = "reading" /\ mode' = "reading"
      BY <1>4, <2>1, ModesAre, ModesWillBe DEF ModeFacts
    <2>3. At = (IF pc = "next" THEN i + 1 ELSE i) /\ At' = i'
      BY <2>1, <2>2, ModesAre, ModesWillBe DEF ModeFacts
    <2> QED
      BY <1>6, <2>1, <2>2, <2>3
  <1>8. CASE Execute
    <2>1. /\ pc = "execute" /\ pc' = "start" /\ depth' = depth + 1 /\ i' = i
          /\ depth = 0 \/ depth = 1
      BY <1>2, <1>8 DEF Execute, chain
    <2>2. CASE depth = 0
      <3>1. mode = "idle" /\ mode' = "idle"
        BY <2>1, <2>2, ModesAre, ModesWillBe DEF ModeFacts
      <3> QED
        BY <1>5, <3>1
    <2>3. CASE depth = 1
      <3>1. mode = "running" /\ mode' = "running"
        BY <1>4, <2>1, <2>3, ModesAre, ModesWillBe DEF ModeFacts
      <3>2. At = i /\ At' = i'
        BY <2>1, <3>1, ModesAre, ModesWillBe DEF ModeFacts
      <3> QED
        BY <1>6, <2>1, <3>1, <3>2
    <2> QED
      BY <2>1, <2>2, <2>3
  <1>9. CASE Start \/ Malloc
    <2>1. /\ pc \in {"start", "alloc"} /\ pc' = "alloc" /\ depth' = depth /\ i' = i
          /\ depth = 1 \/ depth = 2
      BY <1>2, <1>9 DEF Start, Malloc, chain
    <2>2. CASE depth = 1
      <3>1. mode = "idle" /\ mode' = "idle"
        BY <2>1, <2>2, ModesAre, ModesWillBe DEF ModeFacts
      <3> QED
        BY <1>5, <3>1
    <2>3. CASE depth = 2
      <3>1. mode = "running" /\ mode' = "running"
        BY <1>4, <2>1, <2>3, ModesAre, ModesWillBe DEF ModeFacts
      <3>2. At = i /\ At' = i'
        BY <2>1, <3>1, ModesAre, ModesWillBe DEF ModeFacts
      <3> QED
        BY <1>6, <2>1, <3>1, <3>2
    <2> QED
      BY <2>1, <2>2, <2>3
  <1> QED
    BY <1>7, <1>8, <1>9

LEMMA ManualStep ==
    ASSUME MemoryInv, Values, ChainInv, Next
    PROVE  [Manual!Next]_(Manual!vars)
  <1>1. /\ depth \in {0, 1, 2}
        /\ pc \in {"loader", "halted", "prompt"} => depth = 0
        /\ pc = "execute" => depth < 2
        /\ pc \in {"start", "alloc"} => depth > 0
    BY DEF MemoryInv, Control, Levels
  <1>2. CASE ChainStart
    BY <1>2, BeginStep
  <1>3. CASE ~ChainStart /\ ~Known
    <2>1. ~Known'
      BY <1>3, SameLine DEF Known
    <2>2. mode = "idle" /\ mode' = "idle"
      BY <1>3, <2>1, ModesAre, ModesWillBe DEF ModeFacts
    <2> QED
      BY <2>2, IdleStutters
  <1>4. CASE ~ChainStart /\ Known
    <2>1. input' = input /\ Known'
      BY <1>4, SameLine DEF Known
    <2>2. CASE Load \/ Halt \/ \E line \in Commands : Type(line)
      <3>1. /\ pc \in {"loader", "prompt"} /\ pc' \in {"prompt", "halted", "execute"}
            /\ depth = 0 /\ depth' = 0
        BY <1>1, <2>2 DEF Load, Halt, Type
      <3>2. mode = "idle" /\ mode' = "idle"
        BY <3>1, ModesAre, ModesWillBe DEF ModeFacts
      <3> QED
        BY <3>2, IdleStutters
    <2>3. CASE Missing
      <3>1. /\ pc = "execute" /\ pc' = Caller(depth) /\ depth' = depth /\ i' = i
            /\ status' = [status EXCEPT ![depth] = 2]
            /\ depth = 0 \/ depth = 1
        BY <1>1, <2>3 DEF Missing, chain
      <3>2. CASE depth = 0
        <4>1. pc' = "prompt" /\ depth' = 0
          BY <3>1, <3>2 DEF Caller
        <4>2. mode = "idle" /\ mode' = "idle"
          BY <3>1, <3>2, <4>1, ModesAre, ModesWillBe DEF ModeFacts
        <4> QED
          BY <4>2, IdleStutters
      <3>3. CASE depth = 1
        <4>1. pc' = "next" /\ depth' = 1
          BY <3>1, <3>3 DEF Caller
        <4>2. mode = "running"
          BY <1>4, <3>1, <3>3, ModesAre DEF ModeFacts
        <4>3. status'[1] = 2
          <5>1. DOMAIN status = Levels /\ 1 \in Levels
            BY DEF Values, Levels
          <5>2. status' = [status EXCEPT ![1] = 2]
            BY <3>1, <3>3
          <5> QED
            BY <5>1, <5>2
        <4>4. ScriptOf[input][i].prog \notin Existing
          <5>1. call.cmd = <<ScriptOf[input][i].prog>>
            BY <1>4, <3>1, <3>3 DEF ChainInv, Following
          <5>2. call.cmd \notin {<<p>> : p \in ProgramsOn[system]}
            BY <2>3 DEF Missing, Found, SearchDrive
          <5>3. Existing = ProgramsOn[system]
            BY <3>1, ExistingIs DEF ChainInv
          <5> QED
            BY <5>1, <5>2, <5>3
        <4>5. Manual!Ran
          BY <1>4, <2>1, <3>1, <4>1, <4>2, <4>3, <4>4, RanStep
        <4> QED
          BY <4>5 DEF Manual!Next
      <3> QED
        BY <3>1, <3>2, <3>3
    <2>4. CASE Take \/ Next1 \/ Execute \/ Start \/ Malloc
      BY <1>4, <2>4, HiddenStep
    <2>5. CASE PrintText \/ JumpIf \/ Jump \/ Run
      BY <1>4, <2>5, StatementStep
    <2>6. CASE ChainEnd /\ pc = "chain"
      BY <1>4, <2>6, EndStep
    <2>7. CASE Work \/ DriveProgram \/ (ChainEnd /\ pc # "chain")
      <3>1. \E value \in {0, 1} : ReleaseTo(depth - 1, value)
        <4>1. CASE Work
          BY <4>1 DEF Work
        <4>2. CASE DriveProgram
          <5>1. ReleaseTo(depth - 1, IF Asked \in Drives THEN 0 ELSE 1)
            BY <4>2 DEF DriveProgram
          <5>2. (IF Asked \in Drives THEN 0 ELSE 1) \in {0, 1}
            OBVIOUS
          <5> QED
            BY <5>1, <5>2, Zenon
        <4>3. CASE ChainEnd
          <5>1. ReleaseTo(depth - 1, 0)
            BY <4>3 DEF ChainEnd
          <5>2. 0 \in {0, 1}
            OBVIOUS
          <5> QED
            BY <5>1, <5>2, Zenon
        <4> QED
          BY <2>7, <4>1, <4>2, <4>3
      <3>2. pc = "alloc" /\ i' = i /\ (depth = 1 \/ depth = 2)
        BY <1>1, <2>7 DEF Work, DriveProgram, ChainEnd, Allocated, chain
      <3>3. PICK value \in {0, 1} : ReleaseTo(depth - 1, value)
        BY <3>1
      <3>4. CASE depth = 1
        <4>1. depth' = 0 /\ pc' = "prompt"
          BY <3>3, <3>4 DEF ReleaseTo, Caller
        <4>2. mode = "idle" /\ mode' = "idle"
          BY <3>2, <3>4, <4>1, ModesAre, ModesWillBe DEF ModeFacts
        <4> QED
          BY <4>2, IdleStutters
      <3>5. CASE depth = 2
        <4>1. Manual!Ran
          BY <1>4, <2>1, <3>2, <3>3, <3>5, ReleaseRan
        <4> QED
          BY <4>1 DEF Manual!Next
      <3> QED
        BY <3>2, <3>4, <3>5
    <2> QED
      BY <1>4, <2>2, <2>3, <2>4, <2>5, <2>6, <2>7 DEF Next, Step, Chain
  <1> QED
    BY <1>2, <1>3, <1>4

(* Whatever scripts the user types, with every number, every text and      *)
(* every program's name in them, chain executes their statements in the    *)
(* order and with the exit statuses that the manual gives, for every size  *)
(* of memory and every set of drives: chain.c splits the line with a count *)
(* of $ that starts at 1, jumps to a number one too low, and reads the     *)
(* status that execute leaves.                                             *)
THEOREM ChainFollowsManual == Spec => ImplementsChainScript
  <1>1. Init => Manual!Init
    <2> SUFFICES ASSUME Init PROVE Manual!Init
      OBVIOUS
    <2>1. pc = "loader" /\ depth = 0
      BY DEF Init
    <2>2. mode = "idle"
      BY <2>1, ModesAre DEF ModeFacts
    <2> QED
      BY <2>2, ModesAre DEF ModeFacts, Manual!Init
  <1>2. MemoryInv /\ Values /\ ChainInv /\ [Next]_vars => [Manual!Next]_(Manual!vars)
    <2> SUFFICES ASSUME MemoryInv, Values, ChainInv, [Next]_vars
                 PROVE  [Manual!Next]_(Manual!vars)
      OBVIOUS
    <2>1. CASE Next
      BY <2>1, ManualStep
    <2>2. CASE UNCHANGED vars
      BY <2>2 DEF vars, Manual!vars, Existing, mode, Script, At, LastExit
    <2> QED
      BY <2>1, <2>2
  <1> QED
    BY <1>1, <1>2, MemoryInvariance, ValuesInvariance, ChainInvariance, PTL
       DEF Spec, ImplementsChainScript, Manual!Spec

=============================================================================
