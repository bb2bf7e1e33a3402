-------------------------------- MODULE Seeds ---------------------------------
(***************************************************************************)
(* The pair of seeds of a process (SessionSeeds, src/seeds.rs): how it is  *)
(* generated from the system's randomness, which may fail or return        *)
(* anything, and how it is rotated once it is old enough.                  *)
(***************************************************************************)
EXTENDS Integers

CONSTANTS
  Random,            \* what the system may return, AllZero among it
  AllZero,
  RotationInterval,
  MaxAge             \* bound: how old a pair may become

ASSUME SeedsAssumption == AllZero \in Random /\ RotationInterval \in Nat \ {0}

VARIABLES
  pair,      \* [a, b]: timing_and_pool and burst_composition
  age,       \* time since the pair was generated
  drawn      \* the seed generated first, AllZero while none is

seedVars == <<pair, age, drawn>>

Usable(r) == r # AllZero

\* generate_with_rotation_interval: two seeds, neither zero, that differ.
FreshPairs == {p \in [a : Random, b : Random] : Usable(p.a) /\ Usable(p.b) /\ p.a # p.b}

SeedsInit ==
  /\ pair \in FreshPairs
  /\ age = 0 /\ drawn = AllZero

\* should_rotate.
ShouldRotate == age >= RotationInterval

\* rotate calls EphemeralSeed::generate for the first seed.
RotateFirst(r) ==
  /\ drawn = AllZero
  /\ drawn' = r
  /\ UNCHANGED <<pair, age>>

\* Fault: the first seed is put in place at once.
RotateSecond_OneByOne(r) ==
  /\ drawn # AllZero
  /\ IF Usable(r) /\ r # drawn
     THEN pair' = [a |-> drawn, b |-> r] /\ age' = 0
     ELSE pair' = [pair EXCEPT !.a = drawn] /\ UNCHANGED age
  /\ drawn' = AllZero

\* The second seed, and the pair takes the old one's place; if it is all zero or
\* the same as the first, rotate fails and the old pair stays.
RotateSecond(r) ==
  /\ drawn # AllZero
  /\ IF Usable(r) /\ r # drawn
     THEN pair' = [a |-> drawn, b |-> r] /\ age' = 0
     ELSE UNCHANGED <<pair, age>>
  /\ drawn' = AllZero

\* getrandom fails.
RotateFails ==
  /\ drawn # AllZero
  /\ drawn' = AllZero
  /\ UNCHANGED <<pair, age>>

Grow == age < MaxAge /\ age' = age + 1 /\ UNCHANGED <<pair, drawn>>

SeedsNext == (\E r \in Random : RotateFirst(r) \/ RotateSecond(r)) \/ RotateFails \/ Grow

-----------------------------------------------------------------------------
\* Whatever the system returns, and at whichever of the two seeds it fails, the
\* process has two seeds that differ from each other and from zero, and a pair is
\* replaced as a whole, and is then young, or not at all.
RotationAtomic ==
  [][/\ pair'.a # pair'.b /\ Usable(pair'.a) /\ Usable(pair'.b)
     /\ pair' # pair => pair'.a = drawn /\ ~ShouldRotate']_seedVars
=============================================================================
