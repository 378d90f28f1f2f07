------------------------------ MODULE StatusOr ------------------------------
(***************************************************************************)
(* src/src/lib/statusor: a StatusOr<T> is a status and, in a union, a T    *)
(* that is constructed and destroyed by hand: "data_ is active iff         *)
(* status_.ok()==true".  Objects are constructed, copied, moved, assigned, *)
(* consumed and destroyed in any order; `ub' records a constructor or      *)
(* destructor of T that ran on the wrong memory.                           *)
(***************************************************************************)
EXTENDS Integers

CONSTANTS StatusOrs,    (* the objects                                     *)
          Values        (* values of T                                     *)

Dead == "dead"          (* no T lives in data_                             *)
Moved == "moved"        (* a T that was moved from                         *)
StatusCodes == {"OK", "UNKNOWN", "INTERNAL", "CANCELLED"}

VARIABLES
  object,               (* from an object to [live, code, data, ub]        *)
  holds                 (* history: what each object was last given        *)

Nothing == "nothing"
AnError == "error"

ASSUME ValuesAssumption == Values \cap {Dead, Moved, Nothing, AnError} = {}

Raw == [live |-> FALSE, code |-> "OK", data |-> Dead, ub |-> FALSE]

StatusOrInit == object = [o \in StatusOrs |-> Raw] /\ holds = [o \in StatusOrs |-> Nothing]
-----------------------------------------------------------------------------
(* StatusOrData                                                            *)
IsOk(x) == x.code = "OK"
MakeValue(x, v) == [x EXCEPT !.data = v, !.ub = @ \/ x.data # Dead]
DestroyValue(x) == [x EXCEPT !.data = Dead, !.ub = @ \/ x.data = Dead]

Clear(x) == IF IsOk(x) THEN DestroyValue(x) ELSE x

(* Mutant: an OK status without a value is kept.                           *)
EnsureNotOkNothing(x) == x

EnsureNotOk(x) == IF IsOk(x) THEN [x EXCEPT !.code = "INTERNAL"] ELSE x

AssignValue(x, v) ==
  IF IsOk(x) THEN MakeValue(DestroyValue(x), v) ELSE [MakeValue(x, v) EXCEPT !.code = "OK"]

AssignStatus(x, code) == EnsureNotOk([Clear(x) EXCEPT !.code = code])

ConstructValue(v) == [MakeValue(Raw, v) EXCEPT !.live = TRUE]
ConstructStatus(code) == EnsureNotOk([Raw EXCEPT !.live = TRUE, !.code = code])
ConstructFrom(y) == IF IsOk(y) THEN ConstructValue(y.data) ELSE [Raw EXCEPT !.live = TRUE, !.code = y.code]
AssignFrom(x, y) == IF IsOk(y) THEN AssignValue(x, y.data) ELSE AssignStatus(x, y.code)

(* What is left of an object whose value or status was moved out of it; the*)
(* move of a Status copies its code.                                       *)
MovedFrom(y) == IF IsOk(y) THEN [y EXCEPT !.data = Moved] ELSE y
HeldAfterMove(h) == IF h = AnError THEN AnError ELSE Moved

(* Reading the value out, and the end of the object's life.                *)
Consumed(x) == [MovedFrom(x) EXCEPT !.ub = x.ub \/ x.data = Dead]
Destroyed(x) == [Clear(x) EXCEPT !.live = FALSE, !.code = "OK"]
-----------------------------------------------------------------------------
(* The operations of StatusOr<T>.                                          *)
Construct(o) ==
  /\ ~object[o].live
  /\ \/ \E v \in Values : object' = [object EXCEPT ![o] = ConstructValue(v)] /\ holds' = [holds EXCEPT ![o] = v]
     \/ \E code \in StatusCodes : object' = [object EXCEPT ![o] = ConstructStatus(code)]
                                  /\ holds' = [holds EXCEPT ![o] = AnError]

CopyConstruct(o, p) ==
  /\ ~object[o].live /\ object[p].live
  /\ object' = [object EXCEPT ![o] = ConstructFrom(object[p])]
  /\ holds' = [holds EXCEPT ![o] = holds[p]]

MoveConstruct(o, p) ==
  /\ ~object[o].live /\ object[p].live
  /\ object' = [object EXCEPT ![o] = ConstructFrom(object[p]), ![p] = MovedFrom(@)]
  /\ holds' = [holds EXCEPT ![o] = holds[p], ![p] = HeldAfterMove(@)]

(* Assignment of an object to itself does nothing.                         *)
CopyAssign(o, p) ==
  /\ object[o].live /\ object[p].live
  /\ object' = IF o = p THEN object ELSE [object EXCEPT ![o] = AssignFrom(@, object[p])]
  /\ holds' = [holds EXCEPT ![o] = holds[p]]

MoveAssign(o, p) ==
  /\ object[o].live /\ object[p].live
  /\ object' = IF o = p THEN object ELSE [object EXCEPT ![o] = AssignFrom(@, object[p]), ![p] = MovedFrom(@)]
  /\ holds' = IF o = p THEN holds ELSE [holds EXCEPT ![o] = holds[p], ![p] = HeldAfterMove(@)]

SetStatus(o) == \E code \in StatusCodes :
  /\ object[o].live
  /\ object' = [object EXCEPT ![o] = AssignStatus(@, code)]
  /\ holds' = [holds EXCEPT ![o] = AnError]

(* ConsumeValueOrDie and ConsumeValueOr; the first crashes without a value.*)
ConsumeValue(o) ==
  /\ object[o].live /\ IsOk(object[o])
  /\ object' = [object EXCEPT ![o] = Consumed(@)]
  /\ holds' = [holds EXCEPT ![o] = HeldAfterMove(@)]

Destroy(o) ==
  /\ object[o].live
  /\ object' = [object EXCEPT ![o] = Destroyed(@)]
  /\ holds' = [holds EXCEPT ![o] = Nothing]

StatusOrNext == \E o \in StatusOrs :
  \/ Construct(o)
  \/ \E p \in StatusOrs : \/ CopyConstruct(o, p)
                          \/ MoveConstruct(o, p)
                          \/ CopyAssign(o, p)
                          \/ MoveAssign(o, p)
  \/ SetStatus(o)
  \/ ConsumeValue(o)
  \/ Destroy(o)

StatusOrSpec == StatusOrInit /\ [][StatusOrNext]_<<object, holds>>
-----------------------------------------------------------------------------
(* A T lives in the union exactly while the status is OK, and no           *)
(* constructor of T ever ran over a live T or destructor over a dead one:  *)
(* no sequence of operations leaks, destroys twice or reads raw memory.    *)
LifetimesMatch == \A o \in StatusOrs :
  LET x == object[o] IN ~x.ub /\ (x.data # Dead) = (x.live /\ IsOk(x))

(* ok() and the value tell what the object was last given, through any     *)
(* chain of copies and moves: an error never turns into a value, and a     *)
(* value is only emptied by a move.                                        *)
HoldsWhatItWasGiven == \A o \in StatusOrs :
  object[o].live => IF holds[o] = AnError THEN ~IsOk(object[o])
                    ELSE IsOk(object[o]) /\ object[o].data = holds[o]

(* No operation breaks the union, or what the object stands for.           *)
UnionIsSound == LifetimesMatch /\ HoldsWhatItWasGiven
=============================================================================
