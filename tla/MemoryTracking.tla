--------------------------- MODULE MemoryTracking ---------------------------
(***************************************************************************)
(* class MemoryTracking (execute/MemoryTracking.h): the ledger of the      *)
(* memory a node hands to its computations.  Each method holds the         *)
(* ledger's own mutex from beginning to end, so it is one atomic operator  *)
(* on the ledger value.  The fields are unsigned ints: arithmetic wraps    *)
(* modulo WORD (2^32 in the program, a small number in the models).        *)
(***************************************************************************)
EXTENDS Integers

CONSTANT WORD           \* the number of values of an unsigned int

ASSUME WordAssumption == WORD \in Nat \ {0}

Unsigned == 0 .. (WORD - 1)

Wrap(n) == n % WORD

Ledger == [available : Unsigned, reserved : Unsigned, borrowed : Unsigned]

NewLedger(availableMb) ==
    [available |-> availableMb, reserved |-> 0, borrowed |-> 0]

\* The test shared by reserve() and borrow().
Fits(m, amount) == Wrap(m.reserved + m.borrowed + amount) <= m.available

\* The value reserve() returns: 0, or by how much the request cannot be met.
Deficit(m, amount) ==
    IF Fits(m, amount) THEN 0
    ELSE Wrap(amount - Wrap(m.available - m.reserved - m.borrowed))

\* The effect of reserve(): all or nothing.
Reserve(m, amount) ==
    IF Fits(m, amount) THEN [m EXCEPT !.reserved = Wrap(@ + amount)] ELSE m

Release(m, amount) == [m EXCEPT !.reserved = Wrap(@ - amount)]

\* The value borrow() returns, and its effect.
Loan(m, amount) == IF Fits(m, amount) THEN amount ELSE 0

Borrow(m, amount) == [m EXCEPT !.borrowed = Wrap(@ + Loan(m, amount))]
=============================================================================
