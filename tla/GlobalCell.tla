------------------------------ MODULE GlobalCell ------------------------------
(***************************************************************************)
(* The process-wide instances: nitinol-eventstream, nitinol-persistence    *)
(* and nitinol-projection each keep one in a `static mut`, guarded by two  *)
(* atomics.  The three global.rs are the same code but for their names.    *)
(* The write of the static is no atomic step: between its beginning and    *)
(* its end a reader would find it Torn, which is what a data race is here. *)
(***************************************************************************)
CONSTANTS
  Setters,    \* the calls of init_eventstream (set_writer, ...), each with
              \* an instance to install
  Getters,    \* the calls of get_event_stream (get_global_writer, ...)
  None,       \* the content of the static before anything is installed
  Torn        \* its content while it is written

ASSUME CellAssumption == None \notin Setters /\ Torn \notin Setters /\ None # Torn

VARIABLES
  init,       \* GLOBAL_INIT
  exists,     \* EXISTS
  cell,       \* the static
  setter,     \* how far each setter has come
  getter,     \* what became of each getter
  seen        \* what each getter's reference last led to, or None

vars == <<init, exists, cell, setter, getter, seen>>

TypeOK ==
  /\ init \in {"uninitialized", "initializing", "initialized"}
  /\ exists \in BOOLEAN /\ cell \in Setters \cup {None, Torn}
  /\ setter \in [Setters -> {"called", "won", "writing", "written", "stored", "returned", "panicked"}]
  /\ getter \in [Getters -> {"called", "holding", "panicked"}]
  /\ seen \in [Getters -> Setters \cup {None, Torn}]

Init ==
  /\ init = "uninitialized" /\ exists = FALSE /\ cell = None
  /\ setter = [s \in Setters |-> "called"]
  /\ getter = [g \in Getters |-> "called"] /\ seen = [g \in Getters |-> None]

\* s goes from one point of init_eventstream to the next.
At(s, from, to) ==
  /\ setter[s] = from
  /\ setter' = [setter EXCEPT ![s] = to]
  /\ UNCHANGED <<getter, seen>>

\* Mutant: the exchange is a load, and the store comes later.
LoadOnly(s) ==
  /\ At(s, "called", "won") /\ init = "uninitialized"
  /\ UNCHANGED <<init, exists, cell>>

\* The compare_exchange succeeds.
Win(s) ==
  /\ At(s, "called", "won") /\ init = "uninitialized"
  /\ init' = "initializing"
  /\ UNCHANGED <<exists, cell>>

\* It fails: the call panics.
Lose(s) ==
  /\ At(s, "called", "panicked") /\ init # "uninitialized"
  /\ UNCHANGED <<init, exists, cell>>

\* Mutant: EXISTS is set before the static is written.
BeginWriteLate(s) == At(s, "won", "writing") /\ cell' = Torn /\ exists' = TRUE /\ UNCHANGED init

BeginWrite(s) == At(s, "won", "writing") /\ cell' = Torn /\ UNCHANGED <<init, exists>>

EndWrite(s) == At(s, "writing", "written") /\ cell' = s /\ UNCHANGED <<init, exists>>

StoreInit(s) == At(s, "written", "stored") /\ init' = "initialized" /\ UNCHANGED <<exists, cell>>

\* Mutant: EXISTS is left as it is.
StoreNothing(s) == At(s, "stored", "returned") /\ UNCHANGED <<init, exists, cell>>

StoreExists(s) == At(s, "stored", "returned") /\ exists' = TRUE /\ UNCHANGED <<init, cell>>

\* get_event_stream: a reference if EXISTS is seen set, else a panic.
Get(g) ==
  /\ getter[g] = "called"
  /\ getter' = [getter EXCEPT ![g] = IF exists THEN "holding" ELSE "panicked"]
  /\ UNCHANGED <<init, exists, cell, setter, seen>>

\* The reference, which is 'static, is followed, now and any number of times.
Follow(g) ==
  /\ getter[g] = "holding"
  /\ seen' = [seen EXCEPT ![g] = cell]
  /\ UNCHANGED <<init, exists, cell, setter, getter>>

Next ==
  \/ \E s \in Setters : Win(s) \/ Lose(s) \/ BeginWrite(s) \/ EndWrite(s) \/ StoreInit(s) \/ StoreExists(s)
  \/ \E g \in Getters : Get(g) \/ Follow(g)

Spec == Init /\ [][Next]_vars

----------------------------------------------------------------------------
\* Nobody holds a reference to the static before it is written for good: the
\* unsafe accesses do not race, and a reference leads to an instance.
NoRace == \A g \in Getters : getter[g] = "holding" => cell \in Setters

\* All references ever followed led to one instance, that of the one setter that
\* did not panic.
OneInstance ==
  \A g \in Getters : seen[g] # None =>
    \A s \in Setters : setter[s] \in {"stored", "returned"} <=> seen[g] = s

\* Once a setter has returned no getter panics, as some of the tests rely on.
InstalledIsSeen ==
  [][\A g \in Getters : getter'[g] = "panicked" /\ getter[g] = "called"
       => \A s \in Setters : setter[s] # "returned"]_vars
=============================================================================
