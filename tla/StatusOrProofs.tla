--------------------------- MODULE StatusOrProofs ---------------------------
(***************************************************************************)
(* Proofs about StatusOr: for any number of objects and any type of value, *)
(* no sequence of operations constructs or destroys a value twice, and an  *)
(* object always says what it was last given.                              *)
(***************************************************************************)
EXTENDS StatusOr, TLAPS

Objects == [live : BOOLEAN, code : StatusCodes, data : Values \cup {Dead, Moved}, ub : BOOLEAN]

(* An object that is alive and sound, and one that does not exist.          *)
Sound(x) == x \in Objects /\ x.live = TRUE /\ x.ub = FALSE /\ (x.data # Dead <=> x.code = "OK")

Agrees(x, h) ==
  /\ h \in Values \cup {Moved, AnError}
  /\ h = AnError => x.code # "OK"
  /\ h # AnError => x.code = "OK" /\ x.data = h

StatusOrInv ==
  /\ object \in [StatusOrs -> Objects] /\ DOMAIN holds = StatusOrs
  /\ \A o \in StatusOrs : object[o] = Raw \/ (Sound(object[o]) /\ Agrees(object[o], holds[o]))
-----------------------------------------------------------------------------
LEMMA RawFacts == Raw \in Objects /\ Raw.live = FALSE /\ Raw.code = "OK" /\ Raw.data = Dead /\ Raw.ub = FALSE
BY DEF Raw, Objects, StatusCodes

(* Placement new, where no value lives.                                     *)
LEMMA MakeValueFacts ==
  ASSUME NEW x \in Objects, x.data = Dead, NEW v \in Values \cup {Moved}
  PROVE  /\ MakeValue(x, v) \in Objects /\ MakeValue(x, v).data = v
         /\ MakeValue(x, v).live = x.live /\ MakeValue(x, v).code = x.code /\ MakeValue(x, v).ub = x.ub
<1> DEFINE h == [x EXCEPT !.data = v]
<1>1. MakeValue(x, v) = [h EXCEPT !.ub = x.ub \/ x.data # Dead]
  BY DEF MakeValue
<1>2. h \in Objects /\ h.data = v /\ h.live = x.live /\ h.code = x.code /\ h.ub = x.ub
  BY DEF Objects
<1>3. (x.ub \/ x.data # Dead) = x.ub /\ x.ub \in BOOLEAN
  BY DEF Objects
<1>4. MakeValue(x, v) = [h EXCEPT !.ub = x.ub]
  BY <1>1, <1>3
<1> HIDE DEF h
<1> QED BY <1>2, <1>3, <1>4 DEF Objects

(* The destructor of a value that lives.                                    *)
LEMMA DestroyValueFacts ==
  ASSUME NEW x \in Objects, x.data # Dead
  PROVE  /\ DestroyValue(x) \in Objects /\ DestroyValue(x).data = Dead
         /\ DestroyValue(x).live = x.live /\ DestroyValue(x).code = x.code /\ DestroyValue(x).ub = x.ub
<1> DEFINE h == [x EXCEPT !.data = Dead]
<1>1. DestroyValue(x) = [h EXCEPT !.ub = x.ub \/ x.data = Dead]
  BY DEF DestroyValue
<1>2. h \in Objects /\ h.data = Dead /\ h.live = x.live /\ h.code = x.code /\ h.ub = x.ub
  BY DEF Objects
<1>3. (x.ub \/ x.data = Dead) = x.ub /\ x.ub \in BOOLEAN
  BY DEF Objects
<1>4. DestroyValue(x) = [h EXCEPT !.ub = x.ub]
  BY <1>1, <1>3
<1> HIDE DEF h
<1> QED BY <1>2, <1>3, <1>4 DEF Objects

LEMMA SetCode ==
  ASSUME NEW x \in Objects, NEW c \in StatusCodes
  PROVE  /\ [x EXCEPT !.code = c] \in Objects /\ [x EXCEPT !.code = c].code = c
         /\ [x EXCEPT !.code = c].live = x.live /\ [x EXCEPT !.code = c].data = x.data
         /\ [x EXCEPT !.code = c].ub = x.ub
BY DEF Objects

LEMMA EnsureNotOkFacts ==
  ASSUME NEW x \in Objects
  PROVE  /\ EnsureNotOk(x) \in Objects /\ EnsureNotOk(x).code # "OK"
         /\ EnsureNotOk(x).live = x.live /\ EnsureNotOk(x).data = x.data /\ EnsureNotOk(x).ub = x.ub
<1>1. "INTERNAL" \in StatusCodes BY DEF StatusCodes
<1>2. CASE x.code = "OK"
  <2>1. EnsureNotOk(x) = [x EXCEPT !.code = "INTERNAL"] BY <1>2 DEF EnsureNotOk, IsOk
  <2> QED BY <1>1, <2>1, SetCode
<1>3. CASE x.code # "OK"
  BY <1>3 DEF EnsureNotOk, IsOk
<1> QED BY <1>2, <1>3

(* Clear leaves an object without a value.                                  *)
LEMMA ClearFacts ==
  ASSUME NEW x, Sound(x)
  PROVE  /\ Clear(x) \in Objects /\ Clear(x).data = Dead
         /\ Clear(x).live = TRUE /\ Clear(x).ub = FALSE
<1>1. CASE x.code = "OK"
  <2>1. x \in Objects /\ x.data # Dead /\ Clear(x) = DestroyValue(x) BY <1>1 DEF Sound, Clear, IsOk
  <2> QED BY <2>1, DestroyValueFacts DEF Sound
<1>2. CASE x.code # "OK"
  BY <1>2 DEF Sound, Clear, IsOk
<1> QED BY <1>1, <1>2

(* The destructor leaves raw memory.                                        *)
LEMMA DestroyedIsRaw ==
  ASSUME NEW x, Sound(x)
  PROVE  Destroyed(x) = Raw
<1> DEFINE e == Clear(x)
           h == [e EXCEPT !.live = FALSE]
           r == [h EXCEPT !.code = "OK"]
<1>1. e \in Objects /\ e.data = Dead /\ e.ub = FALSE
  BY ClearFacts
<1>2. Destroyed(x) = r
  BY DEF Destroyed
<1> HIDE DEF e
<1>3. h \in Objects /\ h.live = FALSE /\ h.data = Dead /\ h.ub = FALSE
  BY <1>1 DEF Objects
<1> HIDE DEF h
<1>4. r \in Objects /\ r.live = FALSE /\ r.data = Dead /\ r.ub = FALSE /\ r.code = "OK"
  BY <1>3 DEF Objects, StatusCodes
<1> HIDE DEF r
<1>5. r = Raw
  BY <1>4, RawFacts DEF Objects
<1> QED BY <1>2, <1>5

(* What the constructors and assignments leave.                             *)
LEMMA ConstructValueSound ==
  ASSUME NEW v \in Values \cup {Moved}
  PROVE  Sound(ConstructValue(v)) /\ Agrees(ConstructValue(v), v)
<1>1. v # Dead /\ v # AnError BY ValuesAssumption DEF Dead, Moved, AnError
<1>2. /\ MakeValue(Raw, v) \in Objects /\ MakeValue(Raw, v).data = v
      /\ MakeValue(Raw, v).code = "OK" /\ MakeValue(Raw, v).ub = FALSE
  BY RawFacts, MakeValueFacts
<1> DEFINE m == MakeValue(Raw, v)
           c == [m EXCEPT !.live = TRUE]
<1>3. ConstructValue(v) = c BY DEF ConstructValue
<1> HIDE DEF m
<1>4. c \in Objects /\ c.live = TRUE /\ c.data = v /\ c.code = "OK" /\ c.ub = FALSE
  BY <1>2 DEF m, Objects
<1> HIDE DEF c
<1> QED BY <1>1, <1>3, <1>4 DEF Sound, Agrees

LEMMA FailedSound ==
  ASSUME NEW x \in Objects, x.live = TRUE, x.ub = FALSE, x.data = Dead
  PROVE  Sound(EnsureNotOk(x)) /\ Agrees(EnsureNotOk(x), AnError)
BY EnsureNotOkFacts DEF Sound, Agrees

LEMMA AssignValueSound ==
  ASSUME NEW x, Sound(x), NEW v \in Values \cup {Moved}
  PROVE  Sound(AssignValue(x, v)) /\ Agrees(AssignValue(x, v), v)
<1>0. v # Dead /\ v # AnError BY ValuesAssumption DEF Dead, Moved, AnError
<1>1. CASE x.code = "OK"
  <2>1. /\ DestroyValue(x) \in Objects /\ DestroyValue(x).data = Dead /\ DestroyValue(x).live = TRUE
        /\ DestroyValue(x).code = "OK" /\ DestroyValue(x).ub = FALSE
    BY <1>1, DestroyValueFacts DEF Sound
  <2>2. AssignValue(x, v) = MakeValue(DestroyValue(x), v) BY <1>1 DEF AssignValue, IsOk
  <2> QED BY <1>0, <2>1, <2>2, MakeValueFacts DEF Sound, Agrees
<1>2. CASE x.code # "OK"
  <2>1. /\ MakeValue(x, v) \in Objects /\ MakeValue(x, v).data = v /\ MakeValue(x, v).live = TRUE
        /\ MakeValue(x, v).ub = FALSE
    BY <1>2, MakeValueFacts DEF Sound
  <2>2. AssignValue(x, v) = [MakeValue(x, v) EXCEPT !.code = "OK"] BY <1>2 DEF AssignValue, IsOk
  <2>3. "OK" \in StatusCodes BY DEF StatusCodes
  <2> QED BY <1>0, <2>1, <2>2, <2>3, SetCode DEF Sound, Agrees
<1> QED BY <1>1, <1>2

LEMMA AssignStatusSound ==
  ASSUME NEW x, Sound(x), NEW code \in StatusCodes
  PROVE  Sound(AssignStatus(x, code)) /\ Agrees(AssignStatus(x, code), AnError)
<1> DEFINE e == Clear(x)
           y == [e EXCEPT !.code = code]
<1>1. e \in Objects /\ e.live = TRUE /\ e.ub = FALSE /\ e.data = Dead
  BY ClearFacts
<1>2. AssignStatus(x, code) = EnsureNotOk(y) BY DEF AssignStatus
<1> HIDE DEF e
<1>3. y \in Objects /\ y.live = TRUE /\ y.ub = FALSE /\ y.data = Dead
  BY <1>1, SetCode
<1> HIDE DEF y
<1> QED BY <1>2, <1>3, FailedSound

LEMMA ConstructStatusSound ==
  ASSUME NEW code \in StatusCodes
  PROVE  Sound(ConstructStatus(code)) /\ Agrees(ConstructStatus(code), AnError)
<1> DEFINE h == [Raw EXCEPT !.live = TRUE]
           y == [h EXCEPT !.code = code]
<1>1. h \in Objects /\ h.live = TRUE /\ h.ub = FALSE /\ h.data = Dead
  BY RawFacts DEF Objects
<1>2. ConstructStatus(code) = EnsureNotOk(y) BY DEF ConstructStatus
<1> HIDE DEF h
<1>3. y \in Objects /\ y.live = TRUE /\ y.ub = FALSE /\ y.data = Dead
  BY <1>1, SetCode
<1> HIDE DEF y
<1> QED BY <1>2, <1>3, FailedSound

LEMMA ConstructFromSound ==
  ASSUME NEW y, Sound(y), NEW g, Agrees(y, g)
  PROVE  Sound(ConstructFrom(y)) /\ Agrees(ConstructFrom(y), g)
<1>1. CASE y.code = "OK"
  <2>1. g \in Values \cup {Moved} /\ y.data = g BY <1>1 DEF Agrees
  <2>2. ConstructFrom(y) = ConstructValue(g) BY <1>1, <2>1 DEF ConstructFrom, IsOk
  <2> QED BY <2>1, <2>2, ConstructValueSound
<1>2. CASE y.code # "OK"
  <2> DEFINE h == [Raw EXCEPT !.live = TRUE]
  <2>1. g = AnError /\ y.code \in StatusCodes BY <1>2 DEF Agrees, Sound, Objects
  <2>2. h \in Objects /\ h.live = TRUE /\ h.ub = FALSE /\ h.data = Dead
    BY RawFacts DEF Objects
  <2>3. ConstructFrom(y) = [h EXCEPT !.code = y.code] BY <1>2 DEF ConstructFrom, IsOk
  <2> HIDE DEF h
  <2> QED BY <1>2, <2>1, <2>2, <2>3, SetCode DEF Sound, Agrees
<1> QED BY <1>1, <1>2

LEMMA AssignFromSound ==
  ASSUME NEW x, Sound(x), NEW y, Sound(y), NEW g, Agrees(y, g)
  PROVE  Sound(AssignFrom(x, y)) /\ Agrees(AssignFrom(x, y), g)
<1>1. CASE y.code = "OK"
  <2>1. g \in Values \cup {Moved} /\ y.data = g BY <1>1 DEF Agrees
  <2>2. AssignFrom(x, y) = AssignValue(x, g) BY <1>1, <2>1 DEF AssignFrom, IsOk
  <2> QED BY <2>1, <2>2, AssignValueSound
<1>2. CASE y.code # "OK"
  <2>1. g = AnError /\ y.code \in StatusCodes BY <1>2 DEF Agrees, Sound, Objects
  <2>2. AssignFrom(x, y) = AssignStatus(x, y.code) BY <1>2 DEF AssignFrom, IsOk
  <2> QED BY <2>1, <2>2, AssignStatusSound
<1> QED BY <1>1, <1>2

LEMMA MovedFromSound ==
  ASSUME NEW y, Sound(y), NEW g, Agrees(y, g)
  PROVE  Sound(MovedFrom(y)) /\ Agrees(MovedFrom(y), HeldAfterMove(g))
<1>1. CASE y.code = "OK"
  <2>1. g # AnError /\ HeldAfterMove(g) = Moved BY <1>1 DEF Agrees, HeldAfterMove
  <2>2. MovedFrom(y) = [y EXCEPT !.data = Moved] BY <1>1 DEF MovedFrom, IsOk
  <2> QED BY <1>1, <2>1, <2>2 DEF Sound, Agrees, Objects, Moved, Dead, AnError
<1>2. CASE y.code # "OK"
  BY <1>2 DEF MovedFrom, IsOk, HeldAfterMove, Agrees
<1> QED BY <1>1, <1>2
-----------------------------------------------------------------------------
(* An operation that leaves one object, or two, sound keeps the invariant.  *)
LEMMA OneChanged ==
  ASSUME StatusOrInv, NEW o \in StatusOrs, NEW x, Sound(x), NEW g, Agrees(x, g),
         object' = [object EXCEPT ![o] = x], holds' = [holds EXCEPT ![o] = g]
  PROVE  StatusOrInv'
BY DEF StatusOrInv, Sound

LEMMA TwoChanged ==
  ASSUME StatusOrInv, NEW o \in StatusOrs, NEW p \in StatusOrs, o # p,
         NEW x, Sound(x), NEW g, Agrees(x, g), NEW y, Sound(y), NEW h, Agrees(y, h),
         object' = [object EXCEPT ![o] = x, ![p] = y], holds' = [holds EXCEPT ![o] = g, ![p] = h]
  PROVE  StatusOrInv'
<1> DEFINE ob == [object EXCEPT ![o] = x]
           ho == [holds EXCEPT ![o] = g]
<1>1. ob \in [StatusOrs -> Objects] /\ DOMAIN ho = StatusOrs
  BY DEF StatusOrInv, Sound
<1>2. \A q \in StatusOrs : ob[q] = Raw \/ (Sound(ob[q]) /\ Agrees(ob[q], ho[q]))
  BY DEF StatusOrInv
<1>3. object' = [ob EXCEPT ![p] = y] /\ holds' = [ho EXCEPT ![p] = h]
  OBVIOUS
<1> HIDE DEF ob, ho
<1> QED BY <1>1, <1>2, <1>3 DEF StatusOrInv, Sound

LEMMA LiveIsSound ==
  ASSUME StatusOrInv, NEW o \in StatusOrs, object[o].live
  PROVE  Sound(object[o]) /\ Agrees(object[o], holds[o])
BY RawFacts DEF StatusOrInv

LEMMA StatusOrStep == StatusOrInv /\ [StatusOrNext]_<<object, holds>> => StatusOrInv'
<1> SUFFICES ASSUME StatusOrInv, [StatusOrNext]_<<object, holds>> PROVE StatusOrInv'
  OBVIOUS
<1>1. ASSUME NEW o \in StatusOrs, Construct(o) PROVE StatusOrInv'
  BY <1>1, OneChanged, ConstructValueSound, ConstructStatusSound DEF Construct
<1>2. ASSUME NEW o \in StatusOrs, NEW p \in StatusOrs, CopyConstruct(o, p) PROVE StatusOrInv'
  BY <1>2, OneChanged, LiveIsSound, ConstructFromSound DEF CopyConstruct
<1>3. ASSUME NEW o \in StatusOrs, NEW p \in StatusOrs, MoveConstruct(o, p) PROVE StatusOrInv'
  <2>1. o # p /\ Sound(object[p]) /\ Agrees(object[p], holds[p])
    BY <1>3, LiveIsSound DEF MoveConstruct
  <2>2. /\ object' = [object EXCEPT ![o] = ConstructFrom(object[p]), ![p] = MovedFrom(object[p])]
        /\ holds' = [holds EXCEPT ![o] = holds[p], ![p] = HeldAfterMove(holds[p])]
    BY <1>3 DEF MoveConstruct
  <2> QED BY <2>1, <2>2, TwoChanged, ConstructFromSound, MovedFromSound
<1>4. ASSUME NEW o \in StatusOrs, NEW p \in StatusOrs, CopyAssign(o, p) PROVE StatusOrInv'
  <2>1. Sound(object[o]) /\ Sound(object[p]) /\ Agrees(object[p], holds[p])
    BY <1>4, LiveIsSound DEF CopyAssign
  <2>2. CASE o = p
    BY <1>4, <2>2 DEF CopyAssign, StatusOrInv
  <2>3. CASE o # p
    BY <1>4, <2>1, <2>3, OneChanged, AssignFromSound DEF CopyAssign
  <2> QED BY <2>2, <2>3
<1>5. ASSUME NEW o \in StatusOrs, NEW p \in StatusOrs, MoveAssign(o, p) PROVE StatusOrInv'
  <2>1. Sound(object[o]) /\ Sound(object[p]) /\ Agrees(object[p], holds[p])
    BY <1>5, LiveIsSound DEF MoveAssign
  <2>2. CASE o = p
    BY <1>5, <2>2 DEF MoveAssign, StatusOrInv
  <2>3. CASE o # p
    <3>1. /\ object' = [object EXCEPT ![o] = AssignFrom(object[o], object[p]), ![p] = MovedFrom(object[p])]
          /\ holds' = [holds EXCEPT ![o] = holds[p], ![p] = HeldAfterMove(holds[p])]
      BY <1>5, <2>3 DEF MoveAssign
    <3> QED BY <2>1, <2>3, <3>1, TwoChanged, AssignFromSound, MovedFromSound
  <2> QED BY <2>2, <2>3
<1>6. ASSUME NEW o \in StatusOrs, SetStatus(o) PROVE StatusOrInv'
  <2>1. PICK code \in StatusCodes :
          /\ object[o].live
          /\ object' = [object EXCEPT ![o] = AssignStatus(object[o], code)]
          /\ holds' = [holds EXCEPT ![o] = AnError]
    BY <1>6 DEF SetStatus
  <2>2. Sound(AssignStatus(object[o], code)) /\ Agrees(AssignStatus(object[o], code), AnError)
    BY <2>1, LiveIsSound, AssignStatusSound
  <2> QED BY <2>1, <2>2, OneChanged
<1>7. ASSUME NEW o \in StatusOrs, ConsumeValue(o) PROVE StatusOrInv'
  <2>1. Sound(object[o]) /\ Agrees(object[o], holds[o]) /\ object[o].code = "OK"
    BY <1>7, LiveIsSound DEF ConsumeValue, IsOk
  <2> DEFINE m == MovedFrom(object[o])
             c == [m EXCEPT !.ub = object[o].ub \/ object[o].data = Dead]
  <2>2. Sound(m) /\ Agrees(m, HeldAfterMove(holds[o])) BY <2>1, MovedFromSound
  <2>3. object' = [object EXCEPT ![o] = c] /\ holds' = [holds EXCEPT ![o] = HeldAfterMove(holds[o])]
    BY <1>7 DEF ConsumeValue, Consumed
  <2>4. object[o].data # Dead /\ object[o].ub = FALSE BY <2>1 DEF Sound
  <2> HIDE DEF m
  <2>5. (object[o].ub \/ object[o].data = Dead) = m.ub /\ m \in Objects BY <2>2, <2>4 DEF Sound
  <2>6. c = m BY <2>5 DEF Objects
  <2> QED BY <2>2, <2>3, <2>6, OneChanged
<1>8. ASSUME NEW o \in StatusOrs, Destroy(o) PROVE StatusOrInv'
  <2>1. Sound(object[o]) BY <1>8, LiveIsSound DEF Destroy
  <2>2. object' = [object EXCEPT ![o] = Destroyed(object[o])] /\ holds' = [holds EXCEPT ![o] = Nothing]
    BY <1>8 DEF Destroy
  <2>3. Destroyed(object[o]) = Raw BY <2>1, DestroyedIsRaw
  <2>4. object' = [object EXCEPT ![o] = Raw] BY <2>2, <2>3
  <2> QED BY <2>2, <2>4, RawFacts DEF StatusOrInv
<1>9. CASE UNCHANGED <<object, holds>>
  BY <1>9 DEF StatusOrInv
<1> QED BY <1>1, <1>2, <1>3, <1>4, <1>5, <1>6, <1>7, <1>8, <1>9 DEF StatusOrNext

LEMMA StatusOrAlways == StatusOrSpec => []StatusOrInv
<1>1. StatusOrInit => StatusOrInv
  BY RawFacts DEF StatusOrInit, StatusOrInv
<1> QED BY <1>1, StatusOrStep, PTL DEF StatusOrSpec

(* data_ is active exactly while status_ is OK, and no value is constructed *)
(* over another, destroyed twice or read after its destruction.  Through    *)
(* any chain of copies and moves an object holds what it was last given: an *)
(* error stays an error, and only a move empties a value.                   *)
THEOREM UnionStaysSound == StatusOrSpec => []UnionIsSound
<1>1. StatusOrInv => LifetimesMatch
  <2> SUFFICES ASSUME StatusOrInv, NEW o \in StatusOrs
               PROVE  ~object[o].ub /\ (object[o].data # Dead) = (object[o].live /\ IsOk(object[o]))
    BY DEF LifetimesMatch
  <2>1. CASE object[o] = Raw
    BY <2>1, RawFacts DEF IsOk
  <2>2. CASE Sound(object[o])
    BY <2>2 DEF Sound, IsOk
  <2> QED BY <2>1, <2>2 DEF StatusOrInv
<1>2. StatusOrInv => HoldsWhatItWasGiven
  BY LiveIsSound DEF HoldsWhatItWasGiven, Agrees, IsOk
<1>3. StatusOrInv => UnionIsSound
  BY <1>1, <1>2 DEF UnionIsSound
<1> QED BY <1>3, StatusOrAlways, PTL
=============================================================================
