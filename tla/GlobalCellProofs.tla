--------------------------- MODULE GlobalCellProofs ---------------------------
(***************************************************************************)
(* The process-wide instances, for any number of setters and getters.      *)
(***************************************************************************)
EXTENDS GlobalCell, TLAPS

\* The setters past the exchange: there is at most one, and GLOBAL_INIT says so.
Winner(s) == setter[s] \in {"won", "writing", "written", "stored", "returned"}

CellInv ==
  /\ TypeOK
  /\ \A s \in Setters : Winner(s) => init # "uninitialized"
  /\ \A s, t \in Setters : Winner(s) /\ Winner(t) => s = t
  /\ \A s \in Setters : setter[s] \in {"written", "stored", "returned"} => cell = s
  /\ exists => \E s \in Setters : setter[s] = "returned"
  /\ \A s \in Setters : setter[s] = "returned" => exists
  /\ \A g \in Getters : getter[g] = "holding" => exists
  /\ \A g \in Getters : seen[g] # None => exists /\ seen[g] = cell

LEMMA CellNext == CellInv /\ [Next]_vars => CellInv'
PROOF
<1> SUFFICES ASSUME CellInv, [Next]_vars PROVE CellInv'
  OBVIOUS
<1> USE CellAssumption
<1>1. CASE UNCHANGED vars
  BY <1>1 DEF CellInv, TypeOK, Winner, vars
<1>2. ASSUME NEW s \in Setters, Win(s) PROVE CellInv'
  BY <1>2 DEF CellInv, TypeOK, Winner, Win, At
<1>3. ASSUME NEW s \in Setters, Lose(s) PROVE CellInv'
  BY <1>3 DEF CellInv, TypeOK, Winner, Lose, At
\* While the static is written nobody has returned, so nothing was published.
<1>4. ASSUME NEW s \in Setters, setter[s] \in {"won", "writing", "written", "stored"}
      PROVE  /\ ~exists
             /\ \A t \in Setters : t # s => ~Winner(t)
             /\ \A g \in Getters : getter[g] # "holding" /\ seen[g] = None
  <2>1. \A t \in Setters : t # s => ~Winner(t)
    BY <1>4 DEF CellInv, Winner
  <2>2. ~exists
    BY <1>4, <2>1 DEF CellInv, Winner
  <2>3. QED
    BY <2>1, <2>2 DEF CellInv
<1>5. ASSUME NEW s \in Setters, BeginWrite(s) \/ EndWrite(s) PROVE CellInv'
  <2>1. setter[s] \in {"won", "writing"} /\ UNCHANGED <<init, exists, getter, seen>>
    BY <1>5 DEF BeginWrite, EndWrite, At
  <2>2. CASE BeginWrite(s)
    BY <1>4, <2>1, <2>2 DEF CellInv, TypeOK, Winner, BeginWrite, At
  <2>3. CASE EndWrite(s)
    <3>1. /\ cell' = s /\ setter' = [setter EXCEPT ![s] = "written"]
      BY <2>3 DEF EndWrite, At
    <3>2. /\ setter'[s] = "written"
          /\ \A t \in Setters : t # s => setter'[t] = setter[t] /\ ~Winner(t) /\ ~Winner(t)'
      BY <1>4, <2>1, <3>1 DEF CellInv, TypeOK, Winner
    <3>3. TypeOK'
      BY <2>1, <3>1 DEF CellInv, TypeOK
    <3>4. QED
      BY <1>4, <2>1, <3>1, <3>2, <3>3 DEF CellInv, Winner
  <2>4. QED
    BY <1>5, <2>2, <2>3
<1>6. ASSUME NEW s \in Setters, StoreInit(s) \/ StoreExists(s) PROVE CellInv'
  <2>1. /\ setter[s] \in {"written", "stored"} /\ UNCHANGED <<cell, getter, seen>> /\ cell = s
        /\ setter' \in {[setter EXCEPT ![s] = "stored"], [setter EXCEPT ![s] = "returned"]}
        /\ init' # "uninitialized"
    BY <1>6 DEF CellInv, Winner, StoreInit, StoreExists, At
  <2>2. \A t \in Setters : t # s => setter'[t] = setter[t] /\ ~Winner(t) /\ ~Winner(t)'
    BY <1>4, <2>1 DEF CellInv, TypeOK, Winner
  <2>3. TypeOK'
    BY <1>6 DEF CellInv, TypeOK, StoreInit, StoreExists, At
  <2>4. setter'[s] \in {"stored", "returned"} /\ (exists' <=> setter'[s] = "returned")
    BY <1>4, <1>6, <2>1 DEF CellInv, TypeOK, StoreInit, StoreExists, At
  <2>5. QED
    BY <1>4, <2>1, <2>2, <2>3, <2>4 DEF CellInv, Winner
<1>7. ASSUME NEW g \in Getters, Get(g) \/ Follow(g) PROVE CellInv'
  BY <1>7 DEF CellInv, TypeOK, Winner, Get, Follow
<1>8. QED
  BY <1>1, <1>2, <1>3, <1>5, <1>6, <1>7 DEF Next

LEMMA CellInvariant == Spec => []CellInv
PROOF
<1>1. Init => CellInv
  BY CellAssumption DEF Init, CellInv, TypeOK, Winner
<1>2. QED
  BY <1>1, CellNext, PTL DEF Spec

\* The unsafe reads never meet the unsafe write, nor an empty static.
THEOREM Races == Spec => []NoRace
PROOF
<1>1. CellInv => NoRace
  BY DEF CellInv, NoRace
<1>2. QED
  BY <1>1, CellInvariant, PTL

\* There is one instance, and every reference leads to it.
THEOREM SingleInstance == Spec => []OneInstance
PROOF
<1>1. CellInv => OneInstance
  BY DEF CellInv, TypeOK, Winner, OneInstance
<1>2. QED
  BY <1>1, CellInvariant, PTL

\* A getter that panics was called before every return of a setter.
THEOREM NoSpuriousPanic == Spec => InstalledIsSeen
PROOF
<1>1. CellInv /\ [Next]_vars =>
        [\A g \in Getters : getter'[g] = "panicked" /\ getter[g] = "called"
           => \A s \in Setters : setter[s] # "returned"]_vars
  BY DEF CellInv, TypeOK, Next, vars, Win, Lose, BeginWrite, EndWrite, StoreInit, StoreExists,
         At, Get, Follow
<1>2. QED
  BY <1>1, CellInvariant, PTL DEF Spec, InstalledIsSeen
=============================================================================
