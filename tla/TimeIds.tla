------------------------------- MODULE TimeIds -------------------------------
(* Time based ids (time_id.py, TimeBasedIdGenerator): the millisecond and a  *)
(* sequence number within it.  The last id given out is kept in a file, so   *)
(* that a clock that stands still, jumps back or meets a full millisecond    *)
(* does not repeat an id, a restart between two calls included.  The lock of *)
(* the generator makes a call one operation; a crash may still end it before *)
(* or after the file is replaced.                                            *)
EXTENDS Integers

CONSTANTS
    Width,     \* ids per millisecond
    MaxMs,     \* bound: the latest time of the clock
    MaxId      \* bound: the largest id

VARIABLES
    clock,     \* time_ms_fn
    mem,       \* _state of the generator
    file,      \* the state file
    phase,     \* "down", "idle" or "saving" within a call
    issued,    \* ids given out (history)
    lapsed     \* a generator started from an older state than was given out (history)

idVars == <<clock, mem, file, phase, issued, lapsed>>

State == [ms : Nat, seq : 0..(Width - 1)]
Zero == [ms |-> 0, seq |-> 0]
Id(s) == s.ms * Width + s.seq

\* Fault: a full millisecond starts over.
FollowingWraps(s, now) ==
    IF now > s.ms THEN [ms |-> now, seq |-> 0]
    ELSE IF s.seq + 1 < Width THEN [s EXCEPT !.seq = @ + 1]
    ELSE [s EXCEPT !.seq = 0]

\* The next state: a new millisecond, the next of this one, or, when it is
\* full, the first of the one after.
Following(s, now) ==
    IF now > s.ms THEN [ms |-> now, seq |-> 0]
    ELSE IF s.seq + 1 < Width THEN [s EXCEPT !.seq = @ + 1]
    ELSE [ms |-> s.ms + 1, seq |-> 0]

IdsInit ==
    /\ clock = 1 /\ mem = Zero /\ file = Zero /\ phase = "down"
    /\ issued = {} /\ lapsed = FALSE

\* The clock may be set to any time.
Tick ==
    /\ clock' \in 1..MaxMs
    /\ UNCHANGED <<mem, file, phase, issued, lapsed>>

\* A generator goes on from the file; one that cannot read it starts over.
Loaded ==
    /\ mem' \in {file, Zero} /\ phase' = "idle"
    /\ lapsed' = (lapsed \/ \E i \in issued : i > Id(mem'))
    /\ UNCHANGED <<clock, file, issued>>

Start == phase = "down" /\ Loaded

\* The state file is configured anew.
Configure == phase = "idle" /\ Loaded

NextId ==
    /\ phase = "idle" /\ phase' = "saving" /\ Id(mem) < MaxId
    /\ mem' = Following(mem, clock)
    /\ UNCHANGED <<clock, file, issued, lapsed>>

\* The file is replaced, or the attempts to do so are used up; the id is given
\* out in either case.
Return(saved) ==
    /\ phase = "saving" /\ phase' = "idle"
    /\ file' = IF saved THEN mem ELSE file
    /\ issued' = issued \cup {Id(mem)}
    /\ UNCHANGED <<clock, mem, lapsed>>

Dies(saved) ==
    /\ phase # "down" /\ phase' = "down"
    /\ file' = IF saved /\ phase = "saving" THEN mem ELSE file
    /\ mem' = Zero
    /\ UNCHANGED <<clock, issued, lapsed>>

IdsNext ==
    \/ Tick \/ Start \/ Configure \/ NextId
    \/ \E saved \in BOOLEAN : Return(saved) \/ Dies(saved)

IdsSpec == IdsInit /\ [][IdsNext]_idVars

-----------------------------------------------------------------------------
\* Every variable keeps to its domain.
IdsTypeOK ==
    /\ clock \in Nat /\ mem \in State /\ file \in State
    /\ phase \in {"down", "idle", "saving"}
    /\ issued \subseteq Nat /\ lapsed \in BOOLEAN

\* Between its calls, a generator that went on from what was given out is not
\* behind it; within one it is past it.
NotBehind ==
    ~lapsed =>
        /\ phase = "idle" => \A i \in issued : i <= Id(mem)
        /\ phase = "saving" => \A i \in issued : i < Id(mem)

\* An id that is about to be given out is greater than every one before it,
\* whatever the clock does and however many generators followed each other,
\* unless one of them started from a state that was never saved or not read
\* (next_id, _load_state,
\* _save_state).
IdsIncrease ==
    phase = "saving" /\ ~lapsed => \A i \in issued : i < Id(mem)

=============================================================================
