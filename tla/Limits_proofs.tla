---------------------------- MODULE Limits_proofs ----------------------------
(***************************************************************************)
(* Proofs about what is bounded: the requests to a model that one charge   *)
(* pays for, the limits of a day and of a plan, and the budgets of the     *)
(* public endpoints, for every number of callers; and about the rules the  *)
(* system decides by, for every question they may be asked.                *)
(***************************************************************************)
EXTENDS Services, SetLemmas, FiniteSetTheorems, TLAPS

(* The requests of the chats before the one numbered s. *)
Earlier(s) == (s - 1) * ChatAttempts

LEMMA EarlierChats ==
    ASSUME NEW s \in Nat \ {0}
    PROVE  /\ Earlier(s) \in Nat /\ Earlier(s + 1) = Earlier(s) + ChatAttempts
           /\ Earlier(1) = 0
           /\ \A n \in Nat : s <= n => Earlier(s) + ChatAttempts <= ChatAttempts * n
<1> USE ActorsAssumption, ChatsAssumption DEF Earlier
<1>1. Earlier(s) \in Nat
  <2>1. PICK r \in Nat : r = s - 1
    OBVIOUS
  <2>2. r * ChatAttempts \in Nat
    OBVIOUS
  <2>3. QED
    BY <2>1, <2>2
<1>2. Earlier(s + 1) = Earlier(s) + ChatAttempts
  OBVIOUS
<1>3. ASSUME NEW n \in Nat, s <= n PROVE Earlier(s) + ChatAttempts <= ChatAttempts * n
  <2>1. PICK r \in Nat : n = s + r
    BY <1>3
  <2>2. r * ChatAttempts \in Nat /\ s * ChatAttempts \in Nat
    OBVIOUS
  <2>3. ChatAttempts * n = s * ChatAttempts + r * ChatAttempts
    BY <2>1
  <2>4. Earlier(s) + ChatAttempts = s * ChatAttempts
    OBVIOUS
  <2>5. QED
    BY <2>2, <2>3, <2>4
<1>4. Earlier(1) = 0
  OBVIOUS
<1>5. QED
  BY <1>1, <1>2, <1>3, <1>4

(* A request of a user that is not in a chat has not asked anything, one that asks for no
   profile has one chat, and each chat before the present one had all its attempts. *)
ChatsInv ==
    /\ chatAt \in [Handler -> {"idle", "counted", "chat"}]
    /\ kind = [c \in Handler |-> kind[c]] /\ elapsed = [c \in Handler |-> elapsed[c]]
    /\ attempt \in [Handler -> 1..ChatAttempts] /\ shape \in [Handler -> 1..ShapeAttempts]
    /\ counting \in [Handler -> Nat]
    /\ \A c \in Handler :
          /\ counting[c] <= Earlier(shape[c]) + (attempt[c] - 1)
          /\ kind[c] # "campaign_assist" \/ chatAt[c] = "idle" => shape[c] = 1
          /\ chatAt[c] # "chat" => shape[c] = 1 /\ attempt[c] = 1 /\ counting[c] = 0
          /\ elapsed[c] < ChatDeadline

LEMMA ChatsEnd == ASSUME ChatsInv, NEW c \in Handler, I!Ends(c) PROVE ChatsInv'
<1> USE ActorsAssumption, ChatsAssumption DEF ChatsInv
<1>1. /\ chatAt' = [chatAt EXCEPT ![c] = "idle"] /\ kind' = [kind EXCEPT ![c] = "test"]
      /\ attempt' = [attempt EXCEPT ![c] = 1] /\ shape' = [shape EXCEPT ![c] = 1]
      /\ elapsed' = [elapsed EXCEPT ![c] = 0] /\ counting' = [counting EXCEPT ![c] = 0]
  BY DEF I!Ends
<1>2. \A d \in Handler : d # c =>
        /\ chatAt'[d] = chatAt[d] /\ kind'[d] = kind[d] /\ attempt'[d] = attempt[d]
        /\ shape'[d] = shape[d] /\ elapsed'[d] = elapsed[d] /\ counting'[d] = counting[d]
  BY <1>1
<1>3. /\ chatAt'[c] = "idle" /\ kind'[c] = "test" /\ attempt'[c] = 1
      /\ shape'[c] = 1 /\ elapsed'[c] = 0 /\ counting'[c] = 0
  BY <1>1
<1>4. Earlier(1) = 0
  BY EarlierChats
<1>5. \A d \in Handler :
          /\ counting'[d] <= Earlier(shape'[d]) + (attempt'[d] - 1)
          /\ kind'[d] # "campaign_assist" \/ chatAt'[d] = "idle" => shape'[d] = 1
          /\ chatAt'[d] # "chat" => shape'[d] = 1 /\ attempt'[d] = 1 /\ counting'[d] = 0
          /\ elapsed'[d] < ChatDeadline
  BY <1>2, <1>3, <1>4
<1>6. /\ chatAt' \in [Handler -> {"idle", "counted", "chat"}]
      /\ kind' = [d \in Handler |-> kind'[d]] /\ elapsed' = [d \in Handler |-> elapsed'[d]]
      /\ attempt' \in [Handler -> 1..ChatAttempts] /\ shape' \in [Handler -> 1..ShapeAttempts]
      /\ counting' \in [Handler -> Nat]
  <2>1. 1 \in 1..ChatAttempts /\ 1 \in 1..ShapeAttempts
    OBVIOUS
  <2>2. chatAt' \in [Handler -> {"idle", "counted", "chat"}] /\ counting' \in [Handler -> Nat]
    BY <1>1
  <2>3. kind' = [d \in Handler |-> kind'[d]] /\ elapsed' = [d \in Handler |-> elapsed'[d]]
    BY <1>1
  <2>4. attempt' \in [Handler -> 1..ChatAttempts]
    BY <1>1, <2>1
  <2>5. shape' \in [Handler -> 1..ShapeAttempts]
    BY <1>1, <2>1
  <2>6. QED
    BY <2>2, <2>3, <2>4, <2>5
<1>7. QED
  BY <1>5, <1>6

LEMMA ChatsWait ==
    ASSUME ChatsInv, NEW c \in Handler, NEW used, NEW wait, chatAt[c] = "chat",
           I!Waits(c, used, wait)
    PROVE  ChatsInv'
<1> USE ActorsAssumption, ChatsAssumption DEF ChatsInv
<1>1. /\ attempt[c] < ChatAttempts /\ attempt' = [attempt EXCEPT ![c] = @ + 1]
      /\ elapsed' = [elapsed EXCEPT ![c] = @ + used + wait]
      /\ elapsed[c] + used + wait < ChatDeadline
      /\ counting' = [counting EXCEPT ![c] = @ + 1] /\ UNCHANGED <<chatAt, kind, shape>>
  BY DEF I!Waits, I!InTime
<1>2. elapsed'[c] < ChatDeadline /\ \A d \in Handler : d # c => elapsed'[d] = elapsed[d]
  BY <1>1
<1>3. /\ attempt'[c] = attempt[c] + 1 /\ counting'[c] = counting[c] + 1
      /\ \A d \in Handler : d # c => attempt'[d] = attempt[d] /\ counting'[d] = counting[d]
  BY <1>1
<1>4. Earlier(shape[c]) \in Nat
  BY EarlierChats
<1>5. counting'[c] <= Earlier(shape[c]) + (attempt'[c] - 1)
  BY <1>3, <1>4
<1>6. /\ attempt' \in [Handler -> 1..ChatAttempts] /\ counting' \in [Handler -> Nat]
      /\ elapsed' = [d \in Handler |-> elapsed'[d]]
  BY <1>1
<1>7. QED
  BY <1>1, <1>2, <1>3, <1>5, <1>6

LEMMA ChatsStep == ChatsInv /\ [I!Next]_I!vars => ChatsInv'
<1> SUFFICES ASSUME ChatsInv, [I!Next]_I!vars PROVE ChatsInv'
  OBVIOUS
<1> USE ActorsAssumption, ChatsAssumption DEF ChatsInv
<1>1. ASSUME NEW c \in Handler, NEW k \in I!Kind, I!Count(c, k) PROVE ChatsInv'
  BY <1>1 DEF I!Count
<1>2. ASSUME NEW c \in Handler, I!Charge(c) PROVE ChatsInv'
  BY <1>2 DEF I!Charge
<1>3. ASSUME NEW c \in Handler, I!Answered(c) \/ I!Dies(c) PROVE ChatsInv'
  BY <1>3, ChatsEnd DEF I!Answered, I!Dies
<1>4. ASSUME NEW c \in Handler, I!Incomplete(c) PROVE ChatsInv'
  <2>1. CASE I!Ends(c)
    BY <2>1, ChatsEnd
  <2>2. CASE ~I!Ends(c)
    <3>1. /\ kind[c] = "campaign_assist" /\ chatAt[c] = "chat" /\ shape[c] < ShapeAttempts
          /\ shape' = [shape EXCEPT ![c] = @ + 1] /\ attempt' = [attempt EXCEPT ![c] = 1]
          /\ elapsed' = [elapsed EXCEPT ![c] = 0] /\ counting' = [counting EXCEPT ![c] = @ + 1]
          /\ UNCHANGED <<chatAt, kind>>
      BY <1>4, <2>2 DEF I!Incomplete, I!Requested
    <3>2. Earlier(shape[c] + 1) = Earlier(shape[c]) + ChatAttempts /\ Earlier(shape[c]) \in Nat
      BY EarlierChats
    <3>4. counting[c] + 1 <= Earlier(shape[c] + 1)
      BY <3>2
    <3>5. /\ shape'[c] = shape[c] + 1 /\ attempt'[c] = 1 /\ counting'[c] = counting[c] + 1
          /\ elapsed'[c] = 0 /\ chatAt'[c] = "chat" /\ kind'[c] = "campaign_assist"
      BY <3>1
    <3>6. counting'[c] <= Earlier(shape'[c]) + (attempt'[c] - 1)
      BY <3>2, <3>4, <3>5
    <3>7. \A d \in Handler : d # c =>
            /\ shape'[d] = shape[d] /\ attempt'[d] = attempt[d] /\ counting'[d] = counting[d]
            /\ elapsed'[d] = elapsed[d]
      BY <3>1
    <3>8. /\ attempt' \in [Handler -> 1..ChatAttempts] /\ counting' \in [Handler -> Nat]
          /\ shape' \in [Handler -> 1..ShapeAttempts] /\ elapsed' = [d \in Handler |-> elapsed'[d]]
      BY <3>1
    <3>9. QED
      BY <3>1, <3>5, <3>6, <3>7, <3>8
  <2>3. QED
    BY <2>1, <2>2
<1>5. ASSUME NEW c \in Handler, NEW used, I!Throttled(c, used) \/ I!Dropped(c, used)
      PROVE  ChatsInv'
  BY <1>5, ChatsEnd, ChatsWait, Zenon DEF I!Throttled, I!Dropped, I!Requested
<1>6. CASE I!EventAges \/ I!Settings \/ UNCHANGED I!vars
  BY <1>6 DEF I!EventAges, I!Settings, I!vars
<1>7. QED
  BY <1>1, <1>2, <1>3, <1>4, <1>5, <1>6, Zenon DEF I!Next

LEMMA ChatsBounded == I!Spec => [](I!BoundedRequests /\ I!StartsInTime)
<1>1. I!Init => ChatsInv
  BY ActorsAssumption, ChatsAssumption, EarlierChats DEF I!Init, ChatsInv
<1>2. ChatsInv => I!BoundedRequests /\ I!StartsInTime
  <2> SUFFICES ASSUME ChatsInv PROVE I!BoundedRequests /\ I!StartsInTime
    OBVIOUS
  <2>1. I!StartsInTime
    BY DEF ChatsInv, I!StartsInTime
  <2>2. ASSUME NEW c \in Handler, chatAt[c] = "chat", NEW n \in Nat, shape[c] <= n
        PROVE  counting[c] < ChatAttempts * n
    <3>1. Earlier(shape[c]) + ChatAttempts <= ChatAttempts * n /\ Earlier(shape[c]) \in Nat
      BY <2>2, ActorsAssumption, ChatsAssumption, EarlierChats DEF ChatsInv
    <3>2. /\ counting[c] <= Earlier(shape[c]) + (attempt[c] - 1)
          /\ attempt[c] \in 1..ChatAttempts /\ counting[c] \in Nat /\ ChatAttempts \in Nat
      BY <2>2, ActorsAssumption, ChatsAssumption DEF ChatsInv
    <3>3. ChatAttempts * n \in Nat
      BY <3>2
    <3>4. QED
      BY <3>1, <3>2, <3>3
  <2>3. \A c \in Handler : /\ shape[c] \in Nat /\ shape[c] <= ShapeAttempts
                           /\ kind[c] # "campaign_assist" => shape[c] <= 1
    BY ActorsAssumption, ChatsAssumption DEF ChatsInv
  <2>4. I!BoundedRequests
    BY <2>2, <2>3, ActorsAssumption, ChatsAssumption DEF I!BoundedRequests
  <2>5. QED
    BY <2>1, <2>4
<1>3. QED
  BY <1>1, <1>2, ChatsStep, PTL DEF I!Spec
-----------------------------------------------------------------------------
Counted == {c \in Handler : chatAt[c] = "counted"}

(* Who is between the count and the event was counted below the limit. *)
ChargesInv ==
    /\ charged \in Nat /\ chatAt \in [Handler -> {"idle", "counted", "chat"}]
    /\ charged + Cardinality(Counted) <= DailyLimit + Cardinality(Handler) - 1

LEMMA CountedOnly == /\ IsFiniteSet(Counted) /\ Cardinality(Counted) \in Nat
                     /\ Cardinality(Handler) \in Nat
                     /\ \A c \in Handler \ Counted : Cardinality(Counted) + 1 <= Cardinality(Handler)
<1> USE ActorsAssumption, ChatsAssumption
<1>1. Counted \subseteq Handler
  BY DEF Counted
<1>2. IsFiniteSet(Counted) /\ Cardinality(Counted) \in Nat /\ Cardinality(Handler) \in Nat
  BY <1>1, FS_Subset, FS_CardinalityType
<1>3. ASSUME NEW c \in Handler \ Counted
      PROVE  Cardinality(Counted) + 1 <= Cardinality(Handler)
  <2>1. Counted \cup {c} \subseteq Handler
    BY <1>1
  <2>2. Cardinality(Counted \cup {c}) = Cardinality(Counted) + 1
    BY <1>2, FS_AddElement
  <2>3. QED
    BY <2>1, <2>2, FS_Subset
<1>4. QED
  BY <1>2, <1>3

LEMMA ChargesStep == ChargesInv /\ [I!Next]_I!vars => ChargesInv'
<1> SUFFICES ASSUME ChargesInv, [I!Next]_I!vars PROVE ChargesInv'
  OBVIOUS
<1> USE ActorsAssumption, ChatsAssumption
<1>0. /\ IsFiniteSet(Counted) /\ Cardinality(Counted) \in Nat /\ Cardinality(Handler) \in Nat
      /\ charged \in Nat /\ DailyLimit \in Nat
  BY CountedOnly DEF ChargesInv
<1>1. ASSUME NEW c \in Handler, NEW k \in I!Kind, I!Count(c, k) PROVE ChargesInv'
  <2>1. chatAt[c] = "idle" /\ charged < DailyLimit /\ chatAt' = [chatAt EXCEPT ![c] = "counted"]
        /\ charged' = charged
    BY <1>1 DEF I!Count
  <2>2. Counted' = Counted \cup {c} /\ c \in Handler \ Counted
    BY <2>1 DEF Counted, ChargesInv
  <2>3. Cardinality(Counted') = Cardinality(Counted) + 1
    BY <1>0, <2>2, FS_AddElement
  <2>4. Cardinality(Counted) + 1 <= Cardinality(Handler)
    BY <2>2, CountedOnly
  <2>5. chatAt' \in [Handler -> {"idle", "counted", "chat"}]
    BY <2>1 DEF ChargesInv
  <2>6. QED
    BY <1>0, <2>1, <2>3, <2>4, <2>5 DEF ChargesInv
<1>2. ASSUME NEW c \in Handler, I!Charge(c) PROVE ChargesInv'
  <2>1. chatAt[c] = "counted" /\ chatAt' = [chatAt EXCEPT ![c] = "chat"] /\ charged' = charged + 1
    BY <1>2 DEF I!Charge
  <2>2. Counted' = Counted \ {c} /\ c \in Counted
    BY <2>1 DEF Counted, ChargesInv
  <2>3. Cardinality(Counted') = Cardinality(Counted) - 1
    BY <1>0, <2>2, FS_RemoveElement
  <2>4. chatAt' \in [Handler -> {"idle", "counted", "chat"}]
    BY <2>1 DEF ChargesInv
  <2>5. QED
    BY <1>0, <2>1, <2>3, <2>4 DEF ChargesInv
<1>3. ASSUME NEW c \in Handler, I!Ends(c) PROVE ChargesInv'
  <2>1. chatAt' = [chatAt EXCEPT ![c] = "idle"] /\ charged' = charged
    BY <1>3 DEF I!Ends
  <2>2. Counted' \subseteq Counted
    BY <2>1 DEF Counted, ChargesInv
  <2>3. Cardinality(Counted') <= Cardinality(Counted) /\ Cardinality(Counted') \in Nat
    BY <1>0, <2>2, FS_Subset, FS_CardinalityType
  <2>4. chatAt' \in [Handler -> {"idle", "counted", "chat"}]
    BY <2>1 DEF ChargesInv
  <2>5. QED
    BY <1>0, <2>1, <2>3, <2>4 DEF ChargesInv
<1>4. CASE UNCHANGED chatAt /\ charged' \in {charged, charged - 1} /\ charged' \in Nat
  <2>1. Counted' = Counted
    BY <1>4 DEF Counted
  <2>2. QED
    BY <1>0, <1>4, <2>1 DEF ChargesInv
<1>5. ASSUME NEW c \in Handler, NEW used, I!Throttled(c, used) \/ I!Dropped(c, used),
             ~I!Ends(c)
      PROVE  UNCHANGED <<chatAt, charged>>
  BY <1>5, Zenon DEF I!Throttled, I!Dropped, I!Waits
<1>6. ASSUME NEW c \in Handler, I!Incomplete(c), ~I!Ends(c) PROVE UNCHANGED <<chatAt, charged>>
  BY <1>6, Zenon DEF I!Incomplete
<1>7. CASE I!EventAges \/ I!Settings \/ UNCHANGED I!vars
  BY <1>0, <1>4, <1>7 DEF I!EventAges, I!Settings, I!vars
<1>8. UNCHANGED <<chatAt, charged>> => ChargesInv'
  BY <1>0, <1>4
<1>9. ASSUME NEW c \in Handler, I!Answered(c) \/ I!Dies(c) PROVE ChargesInv'
  BY <1>3, <1>9, Zenon DEF I!Answered, I!Dies
<1>10. QED
  BY <1>1, <1>2, <1>3, <1>5, <1>6, <1>7, <1>8, <1>9, Zenon DEF I!Next

LEMMA SameCardinality == \A S : I!Cardinality(S) = Cardinality(S)
  BY Zenon DEF I!Cardinality, Cardinality

LEMMA ChargesOverrun == I!Spec => []I!LimitOverrunByOverlap
<1>1. I!Init => ChargesInv
  <2> SUFFICES ASSUME I!Init PROVE ChargesInv
    OBVIOUS
  <2>1. Counted = {} /\ charged = 0 /\ chatAt \in [Handler -> {"idle", "counted", "chat"}]
    BY DEF I!Init, Counted
  <2>2. QED
    BY <2>1, CountedOnly, FS_EmptySet, ActorsAssumption, ChatsAssumption DEF ChargesInv
<1>2. ChargesInv => I!LimitOverrunByOverlap
  <2> SUFFICES ASSUME ChargesInv PROVE charged <= DailyLimit + Cardinality(Handler) - 1
    BY SameCardinality DEF I!LimitOverrunByOverlap
  <2>1. Cardinality(Counted) \in Nat /\ Cardinality(Handler) \in Nat /\ DailyLimit \in Nat
    BY CountedOnly, ActorsAssumption, ChatsAssumption
  <2>2. charged \in Nat /\ charged + Cardinality(Counted) <= DailyLimit + Cardinality(Handler) - 1
    BY DEF ChargesInv
  <2>3. QED
    BY <2>1, <2>2
<1>3. QED
  BY <1>1, <1>2, ChargesStep, PTL DEF I!Spec
LEMMA Powers == \A n \in Nat : 2 ^ n \in Nat
<1> TAKE n \in Nat
<1> DEFINE S == 1..n
<1>1. IsFiniteSet(S) /\ Cardinality(S) = n
  BY FS_Interval
<1>2. IsFiniteSet(SUBSET S) /\ Cardinality(SUBSET S) = 2 ^ Cardinality(S)
  BY <1>1, FS_SUBSET
<1>3. Cardinality(SUBSET S) \in Nat
  BY <1>2, FS_CardinalityType
<1>4. QED
  BY <1>1, <1>2, <1>3, Zenon

(* A clock of a chat only goes forward. *)
ClocksTyped == /\ kind \in [Handler -> I!Kind] /\ elapsed \in [Handler -> Nat]

LEMMA ClocksStep == ChatsInv /\ ClocksTyped /\ [I!Next]_I!vars => ClocksTyped'
<1> SUFFICES ASSUME ChatsInv, ClocksTyped, [I!Next]_I!vars PROVE ClocksTyped'
  OBVIOUS
<1> USE ActorsAssumption, ChatsAssumption DEF ClocksTyped
<1>1. ASSUME NEW c \in Handler, NEW k \in I!Kind, I!Count(c, k) PROVE ClocksTyped'
  BY <1>1 DEF I!Count
<1>2. ASSUME NEW c \in Handler, I!Ends(c) PROVE ClocksTyped'
  BY <1>2 DEF I!Ends, I!Kind
<1>3. ASSUME NEW c \in Handler, NEW used \in Nat, NEW wait \in Nat, I!Waits(c, used, wait)
      PROVE  ClocksTyped'
  BY <1>3 DEF I!Waits
<1>4. \A c \in Handler : I!Backoff(attempt[c]) \in Nat
  <2> SUFFICES ASSUME NEW c \in Handler PROVE I!Backoff(attempt[c]) \in Nat
    OBVIOUS
  <2>1. attempt[c] - 1 \in Nat
    BY DEF ChatsInv
  <2>2. QED
    BY <2>1, Powers DEF I!Backoff
<1>5. ASSUME NEW c \in Handler, NEW used \in 0..ChatDeadline - 1,
             I!Throttled(c, used) \/ I!Dropped(c, used)
      PROVE  ClocksTyped'
  <2>1. /\ used \in Nat
        /\ \A wait \in {I!Backoff(attempt[c])} \cup (0..MaxRetryAfter) : wait \in Nat
    BY <1>4
  <2>2. \/ I!Ends(c)
        \/ \E wait \in {I!Backoff(attempt[c])} \cup (0..MaxRetryAfter) : I!Waits(c, used, wait)
    BY <1>5, Zenon DEF I!Throttled, I!Dropped
  <2>3. QED
    BY <1>2, <1>3, <2>1, <2>2
<1>6. ASSUME NEW c \in Handler, I!Incomplete(c) PROVE ClocksTyped'
  <2>1. I!Ends(c) \/ (elapsed' = [elapsed EXCEPT ![c] = 0] /\ UNCHANGED kind)
    BY <1>6, Zenon DEF I!Incomplete
  <2>2. QED
    BY <1>2, <2>1
<1>7. ASSUME NEW c \in Handler, I!Answered(c) \/ I!Dies(c) PROVE ClocksTyped'
  BY <1>2, <1>7, Zenon DEF I!Answered, I!Dies
<1>8. ASSUME UNCHANGED <<kind, elapsed>> PROVE ClocksTyped'
  BY <1>8
<1>9. QED
  BY <1>1, <1>5, <1>6, <1>7, <1>8, Zenon
     DEF I!Next, I!vars, I!Charge, I!EventAges, I!Settings

LEMMA ChatsAreTyped == I!Spec => []I!TypeOK
<1> DEFINE Switch == usable \in BOOLEAN
<1>1. I!Init => ChatsInv /\ ClocksTyped /\ ChargesInv /\ Switch
  <2> SUFFICES ASSUME I!Init PROVE ChatsInv /\ ClocksTyped /\ ChargesInv /\ Switch
    OBVIOUS
  <2>1. ChatsInv
    BY ActorsAssumption, ChatsAssumption, EarlierChats DEF I!Init, ChatsInv
  <2>2. ClocksTyped
    BY DEF I!Init, ClocksTyped, I!Kind
  <2>3. Counted = {} /\ charged = 0 /\ chatAt \in [Handler -> {"idle", "counted", "chat"}]
    BY DEF I!Init, Counted
  <2>4. ChargesInv
    BY <2>3, CountedOnly, FS_EmptySet, ActorsAssumption, ChatsAssumption DEF ChargesInv
  <2>5. Switch
    BY Zenon DEF I!Init
  <2>6. QED
    BY <2>1, <2>2, <2>4, <2>5
<1>2. Switch /\ [I!Next]_I!vars => Switch'
  <2> SUFFICES ASSUME Switch, [I!Next]_I!vars PROVE Switch'
    OBVIOUS
  <2>1. usable' = usable \/ usable' = ~usable
    <3>1. \A c : I!Ends(c) => usable' = usable
      BY Zenon DEF I!Ends
    <3>2. \A c, used, wait : I!Waits(c, used, wait) => usable' = usable
      BY Zenon DEF I!Waits
    <3>3. QED
      BY <3>1, <3>2, Zenon
         DEF I!Next, I!vars, I!Count, I!Charge, I!Answered, I!Incomplete, I!Dies, I!Throttled,
             I!Dropped, I!EventAges, I!Settings
  <2>2. QED
    BY <2>1, Zenon
<1>3. ChatsInv /\ ClocksTyped /\ ChargesInv /\ Switch => I!TypeOK
  <2> SUFFICES ASSUME ChatsInv, ClocksTyped, ChargesInv, Switch PROVE I!TypeOK
    OBVIOUS
  <2>1. /\ chatAt \in [Handler -> {"idle", "counted", "chat"}]
        /\ attempt \in [Handler -> 1..ChatAttempts] /\ shape \in [Handler -> 1..ShapeAttempts]
        /\ counting \in [Handler -> Nat] /\ charged \in Nat
    BY DEF ChatsInv, ChargesInv
  <2>2. QED
    BY <2>1, Zenon DEF ClocksTyped, I!TypeOK
<1>4. QED
  BY <1>1, <1>2, <1>3, ChatsStep, ClocksStep, ChargesStep, PTL DEF I!Spec
-----------------------------------------------------------------------------
Passed(n, k, h) == {c \in Visit : W!KeyOf(c, n) = k /\ counted[c][n] = h}

(* Whoever passed a count in this hour is in its row, and in no hour are they more than the
   limit; a call makes its counts in their order, each once. *)
Rows ==
    \A n \in W!Count, k \in W!Keys, h \in W!Hours :
          /\ Cardinality(Passed(n, k, h)) <= W!Limit(n)
          /\ h = W!Hour => Cardinality(Passed(n, k, h)) <= rows[<<k, h>>]

Ordered ==
    \A c \in Visit :
          /\ callAt[c] \in W!Count => who[c] \in Visitor /\ to[c] \in Address
          /\ callAt[c] = "idle" => \A n \in W!Count : counted[c][n] = None
          /\ callAt[c] = "caller" => \A n \in W!Count : counted[c][n] = None
          /\ callAt[c] = "all" => counted[c]["caller"] # None /\ counted[c]["all"] = None
                                  /\ counted[c]["address"] = None
          /\ callAt[c] = "address" => counted[c]["address"] = None
          /\ counted[c]["all"] # None =>
                counted[c]["caller"] # None /\ counted[c]["caller"] <= counted[c]["all"]

BudgetsTyped ==
    /\ clock \in 0..MaxClock
    /\ callAt \in [Visit -> W!Count \cup {"idle", "lookup", "refused", "done"}]
    /\ who = [c \in Visit |-> who[c]] /\ to = [c \in Visit |-> to[c]]
    /\ rows \in [W!Keys \X W!Hours -> Nat]
    /\ counted \in [Visit -> [W!Count -> (0..W!Hour) \cup {None}]]

BudgetsInv == BudgetsTyped /\ Ordered /\ Rows

LEMMA Halves ==
    ASSUME NEW x \in Nat, NEW y \in Nat
    PROVE  /\ x \div 2 \in Nat /\ (x <= y => x \div 2 <= y \div 2)
           /\ (x + 1) \div 2 = x \div 2 \/ (x + 1) \div 2 = x \div 2 + 1
OBVIOUS

LEMMA HourIn == ASSUME BudgetsTyped PROVE W!Hour \in W!Hours /\ W!Hour \in Nat
<1>1. clock \in Nat /\ clock <= MaxClock /\ MaxClock \in Nat
  BY ActorsAssumption, BudgetsAssumption DEF BudgetsTyped
<1>2. clock \div 2 \in Nat /\ clock \div 2 <= MaxClock \div 2 /\ MaxClock \div 2 \in Nat
  BY <1>1, Halves
<1>3. QED
  BY <1>2 DEF W!Hour, W!Hours

LEMMA PassedFinite ==
    ASSUME NEW n, NEW k, NEW h
    PROVE  IsFiniteSet(Passed(n, k, h)) /\ Cardinality(Passed(n, k, h)) \in Nat
<1>1. Passed(n, k, h) \subseteq Visit
  BY DEF Passed
<1>2. QED
  BY <1>1, ActorsAssumption, BudgetsAssumption, FS_Subset, FS_CardinalityType

LEMMA Limited == \A n \in W!Count : W!Limit(n) \in Nat
BY ActorsAssumption, BudgetsAssumption DEF W!Limit, W!Count

(* One count of a call. *)
LEMMA CountsKeeps ==
    ASSUME BudgetsInv, NEW c \in Visit, W!Counts(c) PROVE BudgetsInv'
<1>0. PICK n, k, h, v : /\ n = callAt[c] /\ k = W!KeyOf(c, n) /\ h = W!Hour
                        /\ v = IF W!Within(c, n) THEN h ELSE None
  OBVIOUS
<1>1. /\ n \in W!Count /\ k \in W!Keys /\ h \in W!Hours /\ h \in Nat
      /\ c \in Visit /\ None \notin Nat
  BY <1>0, HourIn, ActorsAssumption, BudgetsAssumption DEF BudgetsInv, Ordered, W!Counts, W!KeyOf, W!Keys, W!Count
<1>2. /\ rows' = [rows EXCEPT ![<<k, h>>] = @ + 1] /\ UNCHANGED <<clock, who, to, mailed>>
      /\ callAt' = [callAt EXCEPT ![c] = IF W!Within(c, n) THEN W!After(n) ELSE "refused"]
      /\ counted' = [counted EXCEPT ![c][n] = v]
  BY <1>0, Zenon DEF W!Counts
<1>3. W!Hour' = W!Hour /\ \A d \in Visit, m \in W!Count : W!KeyOf(d, m)' = W!KeyOf(d, m)
  BY <1>2 DEF W!Hour, W!KeyOf
<1>4. counted[c] \in [W!Count -> (0..h) \cup {None}] /\ counted[c][n] = None
  BY <1>0, <1>1 DEF BudgetsInv, BudgetsTyped, Ordered, W!Count
<1>5. /\ counted' = [counted EXCEPT ![c] = [counted[c] EXCEPT ![n] = v]]
      /\ v \in (0..h) \cup {None}
  BY <1>0, <1>1, <1>2
<1>6. /\ \A d \in Visit : d # c => counted'[d] = counted[d]
      /\ counted'[c][n] = v /\ \A m \in W!Count : m # n => counted'[c][m] = counted[c][m]
      /\ counted' \in [Visit -> [W!Count -> (0..h) \cup {None}]]
  <2>1. PICK one : one = [counted[c] EXCEPT ![n] = v]
    OBVIOUS
  <2>2. /\ one \in [W!Count -> (0..h) \cup {None}] /\ one[n] = v
        /\ \A m \in W!Count : m # n => one[m] = counted[c][m]
    BY <1>1, <1>4, <1>5, <2>1
  <2>3. counted' = [counted EXCEPT ![c] = one]
    BY <1>5, <2>1
  <2>4. counted \in [Visit -> [W!Count -> (0..h) \cup {None}]]
    BY <1>0 DEF BudgetsInv, BudgetsTyped
  <2>5. QED
    BY <2>2, <2>3, <2>4
<1>7. /\ rows' \in [W!Keys \X W!Hours -> Nat] /\ rows'[<<k, h>>] = rows[<<k, h>>] + 1
      /\ \A q \in W!Keys \X W!Hours : rows'[q] >= rows[q]
  <2> DEFINE e == <<k, h>>
  <2>1. e \in W!Keys \X W!Hours
    BY <1>1
  <2>2. rows' = [rows EXCEPT ![e] = rows[e] + 1] /\ rows \in [W!Keys \X W!Hours -> Nat]
    BY <1>2 DEF BudgetsInv, BudgetsTyped
  <2> HIDE DEF e
  <2>3. /\ rows' \in [W!Keys \X W!Hours -> Nat] /\ rows'[e] = rows[e] + 1
        /\ \A q \in W!Keys \X W!Hours : rows'[q] >= rows[q]
    BY <2>1, <2>2
  <2>4. QED
    BY <2>3 DEF e
<1>8. BudgetsTyped'
  BY <1>0, <1>1, <1>2, <1>3, <1>6, <1>7 DEF BudgetsInv, BudgetsTyped, W!After, W!Count, W!Hour
<1>9. Ordered'
  BY <1>0, <1>1, <1>2, <1>4, <1>6 DEF BudgetsInv, BudgetsTyped, Ordered, W!After, W!Count
<1>10. \A m, j, g : (m # n \/ j # k \/ g # h \/ ~W!Within(c, n)) /\ m \in W!Count /\ g \in W!Hours
                       => Passed(m, j, g)' = Passed(m, j, g)
  BY <1>0, <1>1, <1>3, <1>4, <1>6 DEF Passed, W!Hours
<1>11. W!Within(c, n) => Passed(n, k, h)' = Passed(n, k, h) \cup {c} /\ c \notin Passed(n, k, h)
  <2> SUFFICES ASSUME W!Within(c, n)
               PROVE  Passed(n, k, h)' = Passed(n, k, h) \cup {c} /\ c \notin Passed(n, k, h)
    OBVIOUS
  <2>1. v = h /\ h # None
    BY <1>0, <1>1
  <2>2. \A d \in Visit : (W!KeyOf(d, n)' = k /\ counted'[d][n] = h)
                             <=> ((W!KeyOf(d, n) = k /\ counted[d][n] = h) \/ d = c)
    BY <1>0, <1>1, <1>3, <1>4, <1>6, <2>1
  <2>3. c \notin Passed(n, k, h)
    BY <1>4, <2>1 DEF Passed
  <2>4. QED
    BY <2>2, <2>3 DEF Passed
<1>12. Rows'
  <2>1. \A q \in W!Keys \X W!Hours : rows[q] \in Nat /\ rows'[q] \in Nat
    BY <1>7 DEF BudgetsInv, BudgetsTyped
  <2>2. ASSUME W!Within(c, n)
        PROVE  /\ Cardinality(Passed(n, k, h)') <= W!Limit(n)
               /\ Cardinality(Passed(n, k, h)') <= rows'[<<k, h>>]
    <3>1. Cardinality(Passed(n, k, h)') = Cardinality(Passed(n, k, h)) + 1
      BY <1>11, <2>2, PassedFinite, FS_AddElement
    <3>2. rows[<<k, h>>] < W!Limit(n) /\ rows[<<k, h>>] \in Nat
      BY <1>0, <1>1, <2>1, <2>2 DEF W!Within
    <3>3. Cardinality(Passed(n, k, h)) <= rows[<<k, h>>] /\ Cardinality(Passed(n, k, h)) \in Nat
      BY <1>0, <1>1, PassedFinite DEF BudgetsInv, Rows
    <3>4. W!Limit(n) \in Nat
      BY <1>1, Limited
    <3>5. QED
      BY <1>7, <3>1, <3>2, <3>3, <3>4
  <2>3. ASSUME NEW m \in W!Count, NEW j \in W!Keys, NEW g \in W!Hours
        PROVE  /\ Cardinality(Passed(m, j, g)') <= W!Limit(m)
               /\ g = W!Hour => Cardinality(Passed(m, j, g)') <= rows'[<<j, g>>]
    <3>1. CASE m = n /\ j = k /\ g = h /\ W!Within(c, n)
      <4>1. W!Within(c, n)
        BY <3>1
      <4>2. Passed(m, j, g)' = Passed(n, k, h)' /\ rows'[<<j, g>>] = rows'[<<k, h>>]
        BY <3>1
      <4>3. QED
        BY <2>2, <3>1, <4>1, <4>2
    <3>2. CASE ~(m = n /\ j = k /\ g = h /\ W!Within(c, n))
      <4>1. Passed(m, j, g)' = Passed(m, j, g)
        BY <1>10, <3>2
      <4>2. /\ Cardinality(Passed(m, j, g)) <= W!Limit(m)
            /\ g = W!Hour => Cardinality(Passed(m, j, g)) <= rows[<<j, g>>]
        BY DEF BudgetsInv, Rows
      <4>3. rows[<<j, g>>] <= rows'[<<j, g>>] /\ rows[<<j, g>>] \in Nat /\ rows'[<<j, g>>] \in Nat
        BY <1>7, <2>1
      <4>4. Cardinality(Passed(m, j, g)) \in Nat
        BY PassedFinite
      <4>5. QED
        BY <4>1, <4>2, <4>3, <4>4
    <3>3. QED
      BY <3>1, <3>2
  <2>4. QED
    BY <1>3, <2>3 DEF Rows, W!Limit
<1>13. QED
  BY <1>8, <1>9, <1>12 DEF BudgetsInv

LEMMA TickKeeps == ASSUME BudgetsInv, W!Tick PROVE BudgetsInv'
<1>1. /\ clock \in Nat /\ clock' = clock + 1 /\ clock' \in 0..MaxClock
      /\ UNCHANGED <<callAt, who, to, rows, counted, mailed>>
  BY ActorsAssumption, BudgetsAssumption DEF W!Tick, BudgetsInv, BudgetsTyped
<1>2. PICK h, g : h = W!Hour /\ g = W!Hour'
  OBVIOUS
<1>3. h \in Nat /\ (g = h \/ g = h + 1)
  BY <1>1, <1>2, Halves DEF W!Hour
<1>4. counted' \in [Visit -> [W!Count -> (0..g) \cup {None}]]
  <2>1. counted \in [Visit -> [W!Count -> (0..h) \cup {None}]]
    BY <1>2 DEF BudgetsInv, BudgetsTyped
  <2>2. (0..h) \cup {None} \subseteq (0..g) \cup {None}
    BY <1>3
  <2>3. QED
    BY <1>1, <2>1, <2>2
<1>5. BudgetsTyped'
  BY <1>1, <1>2, <1>4 DEF BudgetsInv, BudgetsTyped
<1>6. Ordered'
  BY <1>1 DEF BudgetsInv, Ordered
<1>7. \A n, k, m : Passed(n, k, m)' = Passed(n, k, m)
  BY <1>1 DEF Passed, W!KeyOf
<1>8. \A n \in W!Count : \A k : Passed(n, k, h + 1) = {}
  BY <1>2, <1>3, ActorsAssumption, BudgetsAssumption DEF Passed, BudgetsInv, BudgetsTyped
<1>9. Rows'
  <2> SUFFICES ASSUME NEW n \in W!Count, NEW k \in W!Keys, NEW m \in W!Hours
               PROVE  /\ Cardinality(Passed(n, k, m)') <= W!Limit(n)
                      /\ m = g => Cardinality(Passed(n, k, m)') <= rows'[<<k, m>>]
    BY <1>2 DEF Rows, W!Limit
  <2>1. rows[<<k, m>>] \in Nat /\ rows' = rows
    BY <1>1 DEF BudgetsInv, BudgetsTyped
  <2>2. m = h + 1 => Cardinality(Passed(n, k, m)) <= rows[<<k, m>>]
    BY <1>8, <2>1, FS_EmptySet
  <2>3. /\ Cardinality(Passed(n, k, m)) <= W!Limit(n)
        /\ m = h => Cardinality(Passed(n, k, m)) <= rows[<<k, m>>]
    BY <1>2 DEF BudgetsInv, Rows
  <2>4. QED
    BY <1>3, <1>7, <2>1, <2>2, <2>3
<1>10. QED
  BY <1>5, <1>6, <1>9 DEF BudgetsInv

LEMMA SweepKeeps == ASSUME BudgetsInv, W!Sweep PROVE BudgetsInv'
<1>1. /\ rows' = [k \in W!Keys \X W!Hours |-> IF k[2] < W!Hour THEN 0 ELSE rows[k]]
      /\ UNCHANGED <<clock, callAt, who, to, counted, mailed>>
  BY DEF W!Sweep
<1>2. W!Hour' = W!Hour /\ \A n, k, m : Passed(n, k, m)' = Passed(n, k, m)
  BY <1>1 DEF Passed, W!KeyOf, W!Hour
<1>3. rows' \in [W!Keys \X W!Hours -> Nat]
  BY <1>1 DEF BudgetsInv, BudgetsTyped
<1>4. \A k \in W!Keys : rows'[<<k, W!Hour>>] = rows[<<k, W!Hour>>]
  BY <1>1, HourIn DEF BudgetsInv
<1>5. Rows'
  BY <1>2, <1>4 DEF BudgetsInv, Rows, W!Limit
<1>6. BudgetsTyped' /\ Ordered'
  BY <1>1, <1>2, <1>3 DEF BudgetsInv, BudgetsTyped, Ordered
<1>7. QED
  BY <1>5, <1>6 DEF BudgetsInv

LEMMA AskKeeps == ASSUME BudgetsInv, NEW c \in Visit, W!Ask(c) PROVE BudgetsInv'
<1>1. PICK k \in Visitor, a \in Address :
        /\ who' = [who EXCEPT ![c] = k] /\ to' = [to EXCEPT ![c] = a]
        /\ callAt[c] = "idle" /\ callAt' = [callAt EXCEPT ![c] = "caller"]
        /\ UNCHANGED <<clock, rows, counted, mailed>>
  BY DEF W!Ask
<1>2. W!Hour' = W!Hour
  BY <1>1 DEF W!Hour
<1>3. \A n \in W!Count, m \in Nat : \A j : Passed(n, j, m)' = Passed(n, j, m)
  <2>1. \A n \in W!Count : counted[c][n] = None /\ None \notin Nat
    BY <1>1, ActorsAssumption, BudgetsAssumption DEF BudgetsInv, Ordered
  <2>2. \A d \in Visit, n \in W!Count : d # c => W!KeyOf(d, n)' = W!KeyOf(d, n)
    BY <1>1 DEF W!KeyOf, BudgetsInv, BudgetsTyped
  <2>3. QED
    BY <1>1, <2>1, <2>2 DEF Passed
<1>4. Rows'
  <2>1. \A m \in W!Hours : m \in Nat
    BY DEF W!Hours
  <2>2. QED
    BY <1>1, <1>2, <1>3, <2>1 DEF BudgetsInv, Rows, W!Limit
<1>5. BudgetsTyped'
  BY <1>1, <1>2 DEF BudgetsInv, BudgetsTyped, W!Count
<1>6. Ordered'
  BY <1>1 DEF BudgetsInv, BudgetsTyped, Ordered, W!Count
<1>7. QED
  BY <1>4, <1>5, <1>6 DEF BudgetsInv

LEMMA AnswerKeeps == ASSUME BudgetsInv, NEW c \in Visit, W!Answer(c) PROVE BudgetsInv'
<1>1. /\ callAt' = [callAt EXCEPT ![c] = "done"] /\ UNCHANGED <<clock, who, to, rows, counted>>
  BY DEF W!Answer
<1>2. W!Hour' = W!Hour /\ \A n, j, m : Passed(n, j, m)' = Passed(n, j, m)
  BY <1>1 DEF Passed, W!KeyOf, W!Hour
<1>3. BudgetsTyped' /\ Ordered'
  BY <1>1, <1>2 DEF BudgetsInv, BudgetsTyped, Ordered, W!Count
<1>4. Rows'
  BY <1>1, <1>2 DEF BudgetsInv, Rows, W!Limit
<1>5. QED
  BY <1>3, <1>4 DEF BudgetsInv

LEMMA SameVisits == \A S : W!Cardinality(S) = Cardinality(S)
  BY Zenon DEF W!Cardinality, Cardinality

(* A set of calls that passed a count under one key in one hour is within its limit. *)
LEMMA WithinLimit ==
    ASSUME BudgetsInv, NEW n \in W!Count, NEW k \in W!Keys, NEW h \in W!Hours,
           NEW S \in SUBSET Passed(n, k, h)
    PROVE  W!Cardinality(S) <= W!Limit(n)
<1>1. Cardinality(S) <= Cardinality(Passed(n, k, h)) /\ Cardinality(S) \in Nat
  BY PassedFinite, FS_Subset, FS_CardinalityType
<1>2. Cardinality(Passed(n, k, h)) <= W!Limit(n)
  BY DEF BudgetsInv, Rows
<1>3. W!Cardinality(S) = Cardinality(S)
  BY SameVisits
<1>4. QED
  BY <1>1, <1>2, <1>3, PassedFinite, Limited

(* The counts a call has made, and the calls counted under a key. *)
Past(c) ==
    CASE callAt[c] \in {"idle", "caller"} -> {}
      [] callAt[c] = "all"                -> {"caller"}
      [] callAt[c] = "address"            -> {"caller", "all"}
      [] OTHER                            -> W!Count

CountedUnder(k) == {c \in Visit : \E n \in Past(c) : W!KeyOf(c, n) = k}

(* No call is counted twice in one row. *)
CountsTyped ==
    /\ who \in [Visit -> Visitor \cup {None}] /\ to \in [Visit -> Address \cup {None}]
    /\ mailed \in [Visit -> 0..MaxClock \cup {None}]
    /\ \A k \in W!Keys, h \in W!Hours : rows[<<k, h>>] <= Cardinality(CountedUnder(k))

LEMMA CountedSome ==
    ASSUME NEW k
    PROVE  /\ IsFiniteSet(CountedUnder(k)) /\ Cardinality(CountedUnder(k)) \in Nat
           /\ Cardinality(CountedUnder(k)) <= Cardinality(Visit) /\ Cardinality(Visit) \in Nat
<1>1. CountedUnder(k) \subseteq Visit
  BY DEF CountedUnder
<1>2. QED
  BY <1>1, BudgetsAssumption, FS_Subset, FS_CardinalityType

LEMMA CountsTypedStep == BudgetsInv /\ CountsTyped /\ [W!Next]_W!vars => CountsTyped'
<1> SUFFICES ASSUME BudgetsInv, CountsTyped, [W!Next]_W!vars PROVE CountsTyped'
  OBVIOUS
<1>0. /\ callAt \in [Visit -> W!Count \cup {"idle", "lookup", "refused", "done"}]
      /\ rows \in [W!Keys \X W!Hours -> Nat] /\ clock \in 0..MaxClock
  BY DEF BudgetsInv, BudgetsTyped
<1>1. ASSUME UNCHANGED <<who, to, mailed>>, UNCHANGED callAt,
             \A k \in W!Keys, h \in W!Hours : rows'[<<k, h>>] \in {0, rows[<<k, h>>]}
      PROVE  CountsTyped'
  <2>1. \A k : CountedUnder(k)' = CountedUnder(k)
    BY <1>1 DEF CountedUnder, Past, W!KeyOf
  <2>2. QED
    BY <1>1, <2>1, CountedSome DEF CountsTyped
<1>2. ASSUME NEW c \in Visit, W!Ask(c) PROVE CountsTyped'
  <2>1. /\ callAt[c] = "idle" /\ callAt' = [callAt EXCEPT ![c] = "caller"]
        /\ UNCHANGED <<rows, mailed>>
        /\ \E k \in Visitor, a \in Address :
              who' = [who EXCEPT ![c] = k] /\ to' = [to EXCEPT ![c] = a]
    BY <1>2 DEF W!Ask
  <2>2. who' \in [Visit -> Visitor \cup {None}] /\ to' \in [Visit -> Address \cup {None}]
    BY <2>1 DEF CountsTyped
  <2>3. \A k : CountedUnder(k)' = CountedUnder(k)
    <3>1. Past(c) = {} /\ Past(c)' = {}
      BY <1>0, <2>1 DEF Past
    <3>2. \A d \in Visit : d # c => Past(d)' = Past(d) /\ \A n : W!KeyOf(d, n)' = W!KeyOf(d, n)
      BY <1>0, <2>1 DEF Past, W!KeyOf, CountsTyped
    <3>3. QED
      BY <3>1, <3>2 DEF CountedUnder
  <2>4. QED
    BY <2>1, <2>2, <2>3 DEF CountsTyped
<1>3. ASSUME NEW c \in Visit, W!Counts(c) PROVE CountsTyped'
  <2>0. PICK n, k, h : n = callAt[c] /\ k = W!KeyOf(c, n) /\ h = W!Hour
    OBVIOUS
  <2>1. /\ n \in W!Count /\ k \in W!Keys /\ h \in W!Hours
        /\ rows' = [rows EXCEPT ![<<k, h>>] = @ + 1] /\ UNCHANGED <<who, to, mailed>>
        /\ callAt' = [callAt EXCEPT ![c] = IF W!Within(c, n) THEN W!After(n) ELSE "refused"]
    <3>1. k \in W!Keys /\ h \in W!Hours /\ n \in W!Count
      BY <1>3, <2>0, HourIn DEF BudgetsInv, Ordered, W!Counts, W!KeyOf, W!Keys, W!Count
    <3>2. QED
      BY <1>3, <2>0, <3>1, Zenon DEF W!Counts
  <2>2. \A d, m : W!KeyOf(d, m)' = W!KeyOf(d, m)
    BY <2>1 DEF W!KeyOf
  <2>3. \A d \in Visit : d # c => Past(d)' = Past(d)
    BY <1>0, <2>1 DEF Past
  <2>4. Past(c) \cup {n} \subseteq Past(c)' /\ n \notin Past(c) /\ Past(c) \subseteq W!Count
    BY <1>0, <2>0, <2>1 DEF Past, W!After, W!Count
  <2>5. \A j : CountedUnder(j) \subseteq CountedUnder(j)'
    BY <2>2, <2>3, <2>4 DEF CountedUnder
  <2>6. c \notin CountedUnder(k) /\ c \in CountedUnder(k)'
    <3>1. who[c] \in Visitor /\ to[c] \in Address
      BY <2>0, <2>1 DEF BudgetsInv, Ordered
    <3>2. \A m \in W!Count : m # n => W!KeyOf(c, m) # k
      BY <2>0, <2>1, <3>1, BudgetsAssumption DEF W!KeyOf, W!Count
    <3>3. QED
      BY <2>0, <2>2, <2>4, <3>2 DEF CountedUnder
  <2>7. ASSUME NEW j \in W!Keys, NEW g \in W!Hours
        PROVE  rows'[<<j, g>>] <= Cardinality(CountedUnder(j)')
    <3>1. /\ Cardinality(CountedUnder(j)) <= Cardinality(CountedUnder(j)')
          /\ Cardinality(CountedUnder(j)) \in Nat /\ Cardinality(CountedUnder(j)') \in Nat
          /\ IsFiniteSet(CountedUnder(j)')
      <4>1. IsFiniteSet(CountedUnder(j)')
        <5>1. CountedUnder(j)' \subseteq Visit
          BY DEF CountedUnder
        <5>2. QED
          BY <5>1, BudgetsAssumption, FS_Subset
      <4>2. QED
        BY <2>5, <4>1, CountedSome, FS_Subset, FS_CardinalityType
    <3>2. rows[<<j, g>>] <= Cardinality(CountedUnder(j)) /\ rows[<<j, g>>] \in Nat
      BY <1>0 DEF CountsTyped
    <3>3. CASE j = k
      <4>1. rows'[<<j, g>>] <= rows[<<j, g>>] + 1
        BY <1>0, <2>1, <3>2
      <4>2. Cardinality(CountedUnder(j)) + 1 <= Cardinality(CountedUnder(j)')
        <5>1. Cardinality(CountedUnder(j) \cup {c}) = Cardinality(CountedUnder(j)) + 1
          BY <2>6, <3>3, CountedSome, FS_AddElement
        <5>2. CountedUnder(j) \cup {c} \subseteq CountedUnder(j)'
          BY <2>5, <2>6, <3>3
        <5>3. QED
          BY <3>1, <5>1, <5>2, FS_Subset
      <4>3. rows'[<<j, g>>] \in Nat
        BY <1>0, <2>1, <3>2
      <4>4. QED
        BY <3>1, <3>2, <4>1, <4>2, <4>3
    <3>4. CASE j # k
      <4>1. rows'[<<j, g>>] = rows[<<j, g>>]
        BY <1>0, <2>1, <3>4
      <4>2. QED
        BY <3>1, <3>2, <4>1
    <3>5. QED
      BY <3>3, <3>4
  <2>8. QED
    BY <2>1, <2>7 DEF CountsTyped
<1>4. ASSUME NEW c \in Visit, W!Answer(c) PROVE CountsTyped'
  <2>1. /\ callAt[c] = "lookup" /\ callAt' = [callAt EXCEPT ![c] = "done"]
        /\ mailed' = mailed \/ mailed' = [mailed EXCEPT ![c] = clock]
        /\ UNCHANGED <<who, to, rows>>
    BY <1>4 DEF W!Answer
  <2>2. \A k : CountedUnder(k)' = CountedUnder(k)
    <3>1. \A d \in Visit : Past(d)' = Past(d)
      BY <1>0, <2>1 DEF Past, W!Count
    <3>2. QED
      BY <2>1, <3>1 DEF CountedUnder, W!KeyOf
  <2>3. mailed' \in [Visit -> 0..MaxClock \cup {None}]
    BY <1>0, <2>1 DEF CountsTyped
  <2>4. QED
    BY <2>1, <2>2, <2>3 DEF CountsTyped
<1>5. CASE W!Sweep
  <2>1. rows' = [k \in W!Keys \X W!Hours |-> IF k[2] < W!Hour THEN 0 ELSE rows[k]]
        /\ UNCHANGED <<who, to, mailed, callAt>>
    BY <1>5 DEF W!Sweep
  <2>2. \A k \in W!Keys, h \in W!Hours : rows'[<<k, h>>] \in {0, rows[<<k, h>>]}
    BY <2>1
  <2>3. QED
    BY <1>1, <2>1, <2>2
<1>6. CASE W!Tick \/ UNCHANGED W!vars
  BY <1>1, <1>6 DEF W!Tick, W!vars
<1>7. QED
  BY <1>2, <1>3, <1>4, <1>5, <1>6 DEF W!Next

LEMMA BudgetsHold == W!Spec => [](W!FairShare /\ W!MailBounded) /\ []W!TypeOK
<1>1. ASSUME W!Init PROVE BudgetsInv
  <2>1. /\ clock = 0 /\ callAt = [c \in Visit |-> "idle"] /\ who = [c \in Visit |-> None]
        /\ to = [c \in Visit |-> None] /\ rows = [k \in W!Keys \X W!Hours |-> 0]
        /\ counted = [c \in Visit |-> [n \in W!Count |-> None]]
    BY <1>1 DEF W!Init
  <2>2. BudgetsTyped /\ Ordered
    BY <2>1, ActorsAssumption, BudgetsAssumption DEF BudgetsTyped, Ordered, W!Count
  <2>3. \A n \in W!Count, h \in Nat : \A k : Passed(n, k, h) = {}
    BY <2>1, ActorsAssumption, BudgetsAssumption DEF Passed
  <2>4. \A h \in W!Hours : h \in Nat
    BY DEF W!Hours
  <2>5. Rows
    <3> SUFFICES ASSUME NEW n \in W!Count, NEW k \in W!Keys, NEW h \in W!Hours
                 PROVE  /\ Cardinality(Passed(n, k, h)) <= W!Limit(n)
                        /\ h = W!Hour => Cardinality(Passed(n, k, h)) <= rows[<<k, h>>]
      BY Zenon DEF Rows
    <3>1. Passed(n, k, h) = {} /\ W!Limit(n) \in Nat
      BY <2>3, <2>4, Limited
    <3>2. rows[<<k, h>>] = 0
      BY <2>1
    <3>3. Cardinality(Passed(n, k, h)) = 0
      BY <3>1, FS_EmptySet
    <3>4. QED
      BY <3>1, <3>2, <3>3
  <2>6. QED
    BY <2>2, <2>5 DEF BudgetsInv
<1>2. BudgetsInv /\ [W!Next]_W!vars => BudgetsInv'
  <2> SUFFICES ASSUME BudgetsInv, [W!Next]_W!vars PROVE BudgetsInv'
    OBVIOUS
  <2>1. CASE UNCHANGED W!vars
    <3>1. /\ UNCHANGED <<clock, callAt, who, to, rows, counted>>
      BY <2>1 DEF W!vars
    <3>2. W!Hour' = W!Hour /\ \A n, j, m : Passed(n, j, m)' = Passed(n, j, m)
      BY <3>1 DEF Passed, W!KeyOf, W!Hour
    <3>3. QED
      BY <3>1, <3>2 DEF BudgetsInv, BudgetsTyped, Ordered, Rows, W!Limit
  <2>2. QED
    BY <2>1, TickKeeps, SweepKeeps, AskKeeps, CountsKeeps, AnswerKeeps DEF W!Next
<1>3. BudgetsInv => W!FairShare /\ W!MailBounded
  <2> SUFFICES ASSUME BudgetsInv PROVE W!FairShare /\ W!MailBounded
    OBVIOUS
  <2>1. ASSUME NEW k \in Visitor, NEW h \in W!Hours
        PROVE  W!Cardinality({c \in Visit : /\ who[c] = k /\ counted[c]["all"] = h
                                            /\ counted[c]["caller"] \notin 0..h - 1}) <= PerCaller
    <3> DEFINE S == {c \in Visit : /\ who[c] = k /\ counted[c]["all"] = h
                                   /\ counted[c]["caller"] \notin 0..h - 1}
    <3>1. S \subseteq Passed("caller", k, h)
      <4>1. ASSUME NEW c \in S PROVE W!KeyOf(c, "caller") = k /\ counted[c]["caller"] = h
        <5>1. h \in Nat /\ None \notin Nat /\ counted[c]["all"] = h
          BY ActorsAssumption, BudgetsAssumption DEF W!Hours
        <5>2. counted[c]["caller"] # None /\ counted[c]["caller"] <= h
          BY <5>1 DEF BudgetsInv, Ordered
        <5>3. counted[c]["caller"] \in Nat
          BY <5>2, HourIn DEF BudgetsInv, BudgetsTyped, W!Count
        <5>4. QED
          BY <5>1, <5>2, <5>3 DEF W!KeyOf
      <4>2. QED
        BY <4>1 DEF Passed
    <3>2. "caller" \in W!Count /\ k \in W!Keys /\ W!Limit("caller") = PerCaller
      BY DEF W!Count, W!Keys, W!Limit
    <3> HIDE DEF S
    <3>3. W!Cardinality(S) <= W!Limit("caller")
      BY <3>1, <3>2, WithinLimit
    <3>4. QED
      BY <3>2, <3>3 DEF S
  <2>2. ASSUME NEW a \in Address, NEW h \in W!Hours
        PROVE  W!Cardinality({c \in Visit : to[c] = a /\ mailed[c] # None
                                            /\ counted[c]["address"] = h}) <= PerAddress
    <3> DEFINE S == {c \in Visit : to[c] = a /\ mailed[c] # None /\ counted[c]["address"] = h}
    <3>1. S \subseteq Passed("address", a, h)
      BY DEF Passed, W!KeyOf
    <3>2. "address" \in W!Count /\ a \in W!Keys /\ W!Limit("address") = PerAddress
      BY DEF W!Count, W!Keys, W!Limit
    <3> HIDE DEF S
    <3>3. W!Cardinality(S) <= W!Limit("address")
      BY <3>1, <3>2, WithinLimit
    <3>4. QED
      BY <3>2, <3>3 DEF S
  <2>3. QED
    BY <2>1, <2>2 DEF W!FairShare, W!MailBounded
<1>4. W!Init => CountsTyped
  <2> SUFFICES ASSUME W!Init PROVE CountsTyped
    OBVIOUS
  <2>1. /\ who = [c \in Visit |-> None] /\ to = [c \in Visit |-> None]
        /\ mailed = [c \in Visit |-> None] /\ rows = [k \in W!Keys \X W!Hours |-> 0]
    BY DEF W!Init
  <2>2. QED
    BY <2>1, CountedSome DEF CountsTyped
<1>5. BudgetsInv /\ CountsTyped => W!TypeOK
  <2> SUFFICES ASSUME BudgetsInv, CountsTyped PROVE W!TypeOK
    OBVIOUS
  <2>1. rows \in [W!Keys \X W!Hours -> 0..W!Cardinality(Visit)]
    <3>1. W!Cardinality(Visit) = Cardinality(Visit) /\ Cardinality(Visit) \in Nat
      BY CountedSome, SameVisits
    <3>2. rows \in [W!Keys \X W!Hours -> Nat]
      BY DEF BudgetsInv, BudgetsTyped
    <3>3. ASSUME NEW k \in W!Keys, NEW h \in W!Hours PROVE rows[<<k, h>>] <= Cardinality(Visit)
      <4>1. rows[<<k, h>>] <= Cardinality(CountedUnder(k)) /\ rows[<<k, h>>] \in Nat
        BY <3>2 DEF CountsTyped
      <4>2. /\ Cardinality(CountedUnder(k)) <= Cardinality(Visit)
            /\ Cardinality(CountedUnder(k)) \in Nat /\ Cardinality(Visit) \in Nat
        BY CountedSome
      <4>3. QED
        BY <4>1, <4>2
    <3>4. QED
      BY <3>1, <3>2, <3>3
  <2>2. counted \in [Visit -> [W!Count -> W!Hours \cup {None}]]
    <3>1. (0..W!Hour) \cup {None} \subseteq W!Hours \cup {None}
      <4>1. W!Hour \in W!Hours
        BY HourIn DEF BudgetsInv
      <4>2. MaxClock \div 2 \in Int
        BY BudgetsAssumption, Halves
      <4>3. QED
        BY <4>1, <4>2 DEF W!Hours
    <3>2. counted \in [Visit -> [W!Count -> (0..W!Hour) \cup {None}]]
      BY DEF BudgetsInv, BudgetsTyped
    <3>3. QED
      BY <3>1, <3>2
  <2>3. QED
    BY <2>1, <2>2, Zenon DEF BudgetsInv, BudgetsTyped, CountsTyped, W!TypeOK
<1>6. QED
  BY <1>1, <1>2, <1>3, <1>4, <1>5, CountsTypedStep, PTL DEF W!Spec
-----------------------------------------------------------------------------
(* The campaigns that a request was allowed to activate and has not yet; and the campaigns
   that are or may become active, with the senders they send from. *)
Allowed == {c \in PlanCampaign : \E u \in Handler : granted[u] = <<c, "activate">>}
Coming  == active \cup Allowed
From(S) == {SenderOf[c] : c \in S}

(* What a run has entered in the ledger. *)
Entry == [r \in BuyingRun |-> IF reserved[r] = None THEN 0 ELSE reserved[r]]

Free == Limits["FREE"]

PlansTyped ==
    /\ active \subseteq PlanCampaign /\ IsFiniteSet(active)
    /\ granted \in [Handler -> N!Wish \cup {None}]
    /\ emails \in Nat /\ sending \subseteq Daemon
    /\ reserved \in [BuyingRun -> Nat \cup {None}] /\ changed \in BOOLEAN
    /\ plan \in Plan /\ (~changed => plan = "FREE")

(* The limits as the calls that look at them keep them: what is allowed counts as done, and
   a message under way as sent. *)
CampaignsKept ==
    ~changed =>
        /\ Free.campaigns = Unlimited
           \/ Cardinality(Coming) <= Free.campaigns + (Cardinality(Handler) - 1)
        /\ Free.senders = Unlimited
           \/ Cardinality(From(Coming)) <= Free.senders + (Cardinality(Handler) - 1)
EmailsKept ==
    ~changed /\ Free.emails # Unlimited =>
        /\ emails + Cardinality(sending) <= Free.emails + (Cardinality(Daemon) - 1)
        /\ sending # {} => Free.emails > 0
ProspectsKept ==
    ~changed /\ Free.prospects # Unlimited => SumOf(Entry, BuyingRun) <= Free.prospects

PlansInv == PlansTyped /\ CampaignsKept /\ EmailsKept /\ ProspectsKept

LEMMA Frees ==
    /\ Free.campaigns = Unlimited \/ Free.campaigns \in Nat
    /\ Free.senders = Unlimited \/ Free.senders \in Nat
    /\ Free.emails = Unlimited \/ Free.emails \in Nat
    /\ Free.prospects = Unlimited \/ Free.prospects \in Nat
    /\ Cardinality(Handler) \in Nat \ {0} /\ Cardinality(Daemon) \in Nat \ {0}
<1>1. Cardinality(Handler) \in Nat \ {0} /\ Cardinality(Daemon) \in Nat \ {0}
  BY ActorsAssumption, PlansAssumption, FS_CardinalityType, FS_EmptySet
<1>2. QED
  BY <1>1, ActorsAssumption, PlansAssumption DEF Free

LEMMA SamePlans == \A S : N!Cardinality(S) = Cardinality(S)
  BY Zenon DEF N!Cardinality, Cardinality

(* usageNow's sum. *)
LEMMA EntriesCount ==
    ASSUME PlansTyped
    PROVE  /\ Ints(Entry, BuyingRun) /\ N!Prospects = SumOf(Entry, BuyingRun)
           /\ SumOf(Entry, BuyingRun) \in Int
<1>1. Ints(Entry, BuyingRun)
  BY DEF PlansTyped, Ints, Entry
<1>2. PICK it \in [SUBSET BuyingRun -> Int] :
        Sums(it, Entry, BuyingRun) /\ SumOf(Entry, BuyingRun) = it[BuyingRun]
  BY <1>1, ActorsAssumption, PlansAssumption, SumOfSums
<1> DEFINE Adds(h) == h = [s \in SUBSET BuyingRun |->
               IF s = {} THEN 0
               ELSE (IF reserved[First(s)] = None THEN 0 ELSE reserved[First(s)])
                    + h[s \ {First(s)}]]
<1> DEFINE own == CHOOSE h : Adds(h)
<1>3. \A s \in SUBSET BuyingRun : s # {} =>
        Entry[First(s)] = IF reserved[First(s)] = None THEN 0 ELSE reserved[First(s)]
  BY FirstIn DEF Entry
<1>4. \A h : Adds(h) <=> Sums(h, Entry, BuyingRun)
  BY <1>3 DEF Sums
<1>5. N!Prospects = own[BuyingRun]
  BY DEF N!Prospects, N!MapThenSumSet, N!MapThenFoldSet, First
<1> HIDE DEF Adds
<1>6. Sums(own, Entry, BuyingRun)
  BY <1>2, <1>4
<1> HIDE DEF own
<1>7. own[BuyingRun] = it[BuyingRun]
  BY <1>2, <1>6, ActorsAssumption, PlansAssumption, SumsAgree
<1>8. QED
  BY <1>1, <1>2, <1>5, <1>7

LEMMA Images ==
    ASSUME NEW S, IsFiniteSet(S), NEW f
    PROVE  IsFiniteSet({f[x] : x \in S}) /\ Cardinality({f[x] : x \in S}) <= Cardinality(S)
<1> DEFINE Q == {f[x] : x \in S}
<1>1. [x \in S |-> f[x]] \in Surjection(S, Q)
  BY DEF Surjection
<1>2. QED
  BY <1>1, FS_Surjection

(* No more campaigns are allowed at a time than there are requests. *)
LEMMA OnePerRequest ==
    ASSUME NEW g, NEW S, S = {c \in PlanCampaign : \E u \in Handler : g[u] = <<c, "activate">>}
    PROVE  IsFiniteSet(S) /\ Cardinality(S) <= Cardinality(Handler) /\ Cardinality(S) \in Nat
<1> DEFINE f == [u \in Handler |-> g[u][1]]
<1> DEFINE Q == {f[u] : u \in Handler}
<1>1. S \subseteq Q
  BY DEF f
<1> HIDE DEF f
<1>2. IsFiniteSet(Q) /\ Cardinality(Q) <= Cardinality(Handler)
  BY Images, ActorsAssumption, PlansAssumption
<1> HIDE DEF Q
<1>3. IsFiniteSet(S) /\ Cardinality(S) <= Cardinality(Q)
  BY <1>1, <1>2, FS_Subset
<1>4. Cardinality(S) \in Nat /\ Cardinality(Q) \in Nat /\ Cardinality(Handler) \in Nat
  BY <1>2, <1>3, ActorsAssumption, PlansAssumption, FS_CardinalityType
<1>5. QED
  BY <1>2, <1>3, <1>4

(* Fewer campaigns have fewer senders. *)
LEMMA FromFewer ==
    ASSUME NEW S, IsFiniteSet(S), NEW Part \in SUBSET S
    PROVE  /\ IsFiniteSet(Part) /\ Cardinality(Part) \in Nat /\ Cardinality(S) \in Nat
           /\ Cardinality(Part) <= Cardinality(S)
           /\ IsFiniteSet(From(S)) /\ Cardinality(From(Part)) \in Nat
           /\ Cardinality(From(S)) \in Nat /\ Cardinality(From(Part)) <= Cardinality(From(S))
           /\ Cardinality(From(S)) <= Cardinality(S)
<1>1. IsFiniteSet(Part) /\ Cardinality(Part) <= Cardinality(S)
  BY FS_Subset
<1>2. IsFiniteSet(From(S)) /\ Cardinality(From(S)) <= Cardinality(S)
  BY Images DEF From
<1>3. From(Part) \in SUBSET From(S)
  BY DEF From
<1>4. IsFiniteSet(From(Part)) /\ Cardinality(From(Part)) <= Cardinality(From(S))
  BY <1>2, <1>3, FS_Subset
<1>5. QED
  BY <1>1, <1>2, <1>4, FS_CardinalityType

(* Two sets together are no more than one and the other. *)
LEMMA Together ==
    ASSUME NEW S, IsFiniteSet(S), NEW Q, IsFiniteSet(Q)
    PROVE  /\ IsFiniteSet(S \cup Q) /\ Cardinality(S \cup Q) \in Nat
           /\ Cardinality(S) \in Nat /\ Cardinality(Q) \in Nat
           /\ Cardinality(S \cup Q) <= Cardinality(S) + Cardinality(Q)
<1>1. IsFiniteSet(S \cup Q) /\ IsFiniteSet(S \cap Q)
      /\ Cardinality(S \cup Q) = Cardinality(S) + Cardinality(Q) - Cardinality(S \cap Q)
  BY FS_Union, FS_Intersection
<1>2. QED
  BY <1>1, FS_CardinalityType

(* The smaller of two numbers, and the larger. *)
LEMMA MinMaxOfTwo ==
    ASSUME NEW x \in Int, NEW y \in Int
    PROVE  /\ N!Min({x, y}) \in {x, y} /\ N!Min({x, y}) <= x /\ N!Min({x, y}) <= y
           /\ N!Max({x, y}) \in {x, y} /\ N!Max({x, y}) >= x /\ N!Max({x, y}) >= y
<1>1. \E z \in {x, y} : \A v \in {x, y} : z <= v
  BY x <= y \/ y <= x
<1>2. \E z \in {x, y} : \A v \in {x, y} : z >= v
  BY x <= y \/ y <= x
<1>3. N!Min({x, y}) \in {x, y} /\ \A v \in {x, y} : N!Min({x, y}) <= v
  BY <1>1, Zenon DEF N!Min
<1>4. N!Max({x, y}) \in {x, y} /\ \A v \in {x, y} : N!Max({x, y}) >= v
  BY <1>2, Zenon DEF N!Max
<1>5. QED
  BY <1>3, <1>4

(* A reservation is no more than what the month has left. *)
LEMMA GrantedFits ==
    ASSUME PlansTyped, NEW n \in 0..MaxRequested, N!Granted(n) > 0
    PROVE  /\ N!Granted(n) \in Nat
           /\ ~changed /\ Free.prospects # Unlimited =>
                 SumOf(Entry, BuyingRun) + N!Granted(n) <= Free.prospects
<1> DEFINE sum == SumOf(Entry, BuyingRun)
<1>1. /\ n \in Int /\ MaxRequested \in Nat /\ sum \in Int /\ N!Prospects = sum
      /\ N!Limit.prospects = Unlimited \/ N!Limit.prospects \in Nat
  BY EntriesCount, ActorsAssumption, PlansAssumption DEF N!Limit, PlansTyped
<1> HIDE DEF sum
<1>2. N!Remaining \in Int
  <2>1. ASSUME N!Limit.prospects # Unlimited
        PROVE  N!Max({0, N!Limit.prospects - N!Prospects}) \in Int
    <3>1. PICK left \in Int : left = N!Limit.prospects - N!Prospects
      BY <1>1, <2>1
    <3>2. N!Max({0, left}) \in {0, left}
      BY MinMaxOfTwo
    <3>3. QED
      BY <3>1, <3>2
  <2>2. QED
    BY <1>1, <2>1 DEF N!Remaining
<1>3. N!Granted(n) \in Int /\ N!Granted(n) <= N!Remaining
  BY <1>1, <1>2, MinMaxOfTwo DEF N!Granted
<1>4. N!Remaining > 0
  BY <1>2, <1>3
<1>5. ASSUME ~changed, Free.prospects # Unlimited
      PROVE  sum + N!Granted(n) <= Free.prospects
  <2>1. N!Limit.prospects = Free.prospects /\ Free.prospects \in Nat
    BY <1>5, Frees DEF N!Limit, PlansTyped, Free
  <2>2. N!Remaining = N!Max({0, Free.prospects - sum})
    BY <1>1, <1>4, <1>5, <2>1 DEF N!Remaining
  <2>3. N!Remaining = Free.prospects - sum
    <3>1. PICK left \in Int : left = Free.prospects - sum
      BY <1>1, <2>1
    <3>2. N!Max({0, left}) \in {0, left}
      BY MinMaxOfTwo
    <3>3. N!Remaining = N!Max({0, left})
      BY <2>2, <3>1, SMTT(30)
    <3>4. QED
      BY <1>4, <3>1, <3>2, <3>3
  <2>4. QED
    BY <1>1, <1>3, <2>1, <2>3
<1>6. QED
  BY <1>3, <1>5 DEF sum

LEMMA PlansTypedStep == PlansTyped /\ [N!Next]_N!vars => PlansTyped'
<1> SUFFICES ASSUME PlansTyped, [N!Next]_N!vars PROVE PlansTyped'
  OBVIOUS
<1> USE DEF PlansTyped
<1>1. CASE UNCHANGED N!vars
  BY <1>1 DEF N!vars
<1>2. ASSUME NEW u \in Handler, NEW c \in PlanCampaign, N!AskActivate(u, c) PROVE PlansTyped'
  BY <1>2 DEF N!AskActivate, N!Wish
<1>3. ASSUME NEW u \in Handler, NEW c \in PlanCampaign, N!Activate(u, c) PROVE PlansTyped'
  BY <1>3, FS_AddElement DEF N!Activate
<1>4. ASSUME NEW u \in Handler, NEW x \in Experiment, N!AskExperiment(u, x) PROVE PlansTyped'
  BY <1>4 DEF N!AskExperiment, N!Wish
<1>5. ASSUME NEW u \in Handler, NEW x \in Experiment, N!CreateExperiment(u, x) PROVE PlansTyped'
  BY <1>5 DEF N!CreateExperiment
<1>6. ASSUME NEW c \in PlanCampaign, N!Pause(c) PROVE PlansTyped'
  BY <1>6, FS_RemoveElement DEF N!Pause
<1>7. ASSUME NEW x \in Experiment, N!MoveExperiment(x) PROVE PlansTyped'
  BY <1>7 DEF N!MoveExperiment
<1>8. ASSUME NEW w \in Daemon, N!ClaimEmail(w) PROVE PlansTyped'
  BY <1>8 DEF N!ClaimEmail
<1>9. ASSUME NEW w \in Daemon, NEW ok \in BOOLEAN, N!EndEmail(w, ok) PROVE PlansTyped'
  BY <1>9 DEF N!EndEmail
<1>10. ASSUME NEW r \in BuyingRun, NEW n \in 0..MaxRequested, N!Reserve(r, n) PROVE PlansTyped'
  <2>1. N!Granted(n) > 0
    BY <1>10 DEF N!Reserve
  <2>2. N!Granted(n) \in Nat
    BY ONLY PlansTyped, n \in 0..MaxRequested, <2>1, GrantedFits
  <2>3. QED
    BY <1>10, <2>2 DEF N!Reserve
<1>11. ASSUME NEW r \in BuyingRun, NEW n \in 0..MaxRequested, N!Settle(r, n) PROVE PlansTyped'
  BY <1>11, ActorsAssumption, PlansAssumption DEF N!Settle
<1>12. ASSUME NEW p \in Plan, N!SetPlan(p) PROVE PlansTyped'
  BY <1>12 DEF N!SetPlan
<1>13. CASE N!Suspend \/ N!TrialEnds \/ N!MonthPasses
  BY <1>13 DEF N!Suspend, N!TrialEnds, N!MonthPasses
<1>14. QED
  BY <1>1, <1>2, <1>3, <1>4, <1>5, <1>6, <1>7, <1>8, <1>9, <1>10, <1>11, <1>12, <1>13
     DEF N!Next

LEMMA CampaignsStep ==
    PlansTyped /\ CampaignsKept /\ [N!Next]_N!vars => CampaignsKept'
<1> SUFFICES ASSUME PlansTyped, CampaignsKept, [N!Next]_N!vars PROVE CampaignsKept'
  OBVIOUS
<1>1. /\ IsFiniteSet(Allowed) /\ IsFiniteSet(Allowed')
      /\ Cardinality(Allowed') <= Cardinality(Handler) /\ Cardinality(Allowed') \in Nat
      /\ IsFiniteSet(active)
  BY OnePerRequest DEF Allowed, PlansTyped
<1>2. IsFiniteSet(Coming) /\ Coming = active \cup Allowed /\ Coming' = active' \cup Allowed'
  BY <1>1, Together DEF Coming
<1>0. \A d \in PlanCampaign : None # <<d, "activate">>
  BY ActorsAssumption, PlansAssumption
<1>3. ASSUME Coming' \subseteq Coming, UNCHANGED changed PROVE CampaignsKept'
  <2>1. /\ Cardinality(Coming') \in Nat /\ Cardinality(Coming) \in Nat
        /\ Cardinality(Coming') <= Cardinality(Coming)
        /\ Cardinality(From(Coming')) \in Nat /\ Cardinality(From(Coming)) \in Nat
        /\ Cardinality(From(Coming')) <= Cardinality(From(Coming))
    BY <1>2, <1>3, FromFewer
  <2>2. From(Coming)' = From(Coming')
    BY DEF From
  <2>3. QED
    BY <1>3, <2>1, <2>2, Frees DEF CampaignsKept, Free
<1>4. ASSUME UNCHANGED <<active, granted, changed>> PROVE CampaignsKept'
  BY <1>3, <1>4 DEF Coming, Allowed
<1>5. ASSUME NEW u \in Handler, NEW c \in PlanCampaign, N!AskActivate(u, c) PROVE CampaignsKept'
  <2>1. /\ UNCHANGED <<active, plan, changed>>
        /\ granted' = [granted EXCEPT ![u] = <<c, "activate">>]
        /\ \/ c \in active
           \/ /\ ~N!Over(Cardinality(active), N!Limit.campaigns)
              /\ SenderOf[c] \in From(active)
                 \/ ~N!Over(Cardinality(From(active)), N!Limit.senders)
    BY <1>5, SamePlans DEF N!AskActivate, N!Senders, From
  <2>2. Allowed' \subseteq Allowed \cup {c}
    BY <2>1 DEF Allowed, PlansTyped
  <2>3. CASE c \in active
    BY <1>2, <1>3, <2>1, <2>2, <2>3
  <2>4. CASE c \notin active
    <3> SUFFICES ASSUME ~changed PROVE CampaignsKept'
      BY <2>1 DEF CampaignsKept
    <3>1. N!Limit = Free
      BY DEF N!Limit, Free, PlansTyped
    <3>2. Cardinality(Coming') <= Cardinality(active) + Cardinality(Allowed')
          /\ Cardinality(Coming') \in Nat /\ Cardinality(active) \in Nat
      BY <1>1, <1>2, <2>1, Together
    <3>3. Free.campaigns = Unlimited
          \/ Cardinality(Coming') <= Free.campaigns + (Cardinality(Handler) - 1)
      <4>1. Free.campaigns # Unlimited => Cardinality(active) < Free.campaigns
        BY <2>1, <2>4, <3>1, <3>2, Frees DEF N!Over
      <4>2. QED
        BY <1>1, <3>2, <4>1, Frees
    <3>4. CASE SenderOf[c] \in From(active)
      <4>1. From(Coming') \subseteq From(Coming)
        BY <1>2, <2>1, <2>2, <3>4 DEF From
      <4>2. /\ Cardinality(From(Coming')) \in Nat /\ Cardinality(From(Coming)) \in Nat
            /\ Cardinality(From(Coming')) <= Cardinality(From(Coming))
        BY <1>2, <4>1, FromFewer, FS_Subset, FS_CardinalityType
      <4>3. From(Coming)' = From(Coming')
        BY DEF From
      <4>4. QED
        BY <3>3, <4>2, <4>3, Frees DEF CampaignsKept, Free
    <3>5. CASE SenderOf[c] \notin From(active)
      <4>1. Free.senders # Unlimited => Cardinality(From(active)) < Free.senders
        <5>1. Cardinality(From(active)) \in Nat
          BY <1>1, FromFewer
        <5>2. QED
          BY <2>1, <2>4, <3>1, <3>5, <5>1, Frees DEF N!Over
      <4>2. From(Coming') = From(active) \cup From(Allowed')
        BY <1>2, <2>1 DEF From
      <4>3. /\ IsFiniteSet(From(active)) /\ IsFiniteSet(From(Allowed'))
            /\ Cardinality(From(Allowed')) <= Cardinality(Allowed')
        BY <1>1, FromFewer
      <4>4. /\ Cardinality(From(Coming')) \in Nat
            /\ Cardinality(From(active)) \in Nat /\ Cardinality(From(Allowed')) \in Nat
            /\ Cardinality(From(Coming')) <= Cardinality(From(active)) + Cardinality(From(Allowed'))
        BY <4>2, <4>3, Together
      <4>5. Free.senders = Unlimited
            \/ Cardinality(From(Coming')) <= Free.senders + (Cardinality(Handler) - 1)
        BY <1>1, <4>1, <4>3, <4>4, Frees
      <4>6. From(Coming)' = From(Coming')
        BY DEF From
      <4>7. QED
        BY <3>3, <4>5, <4>6 DEF CampaignsKept, Free
    <3>6. QED
      BY <3>4, <3>5
  <2>5. QED
    BY <2>3, <2>4
<1>6. ASSUME NEW u \in Handler, NEW c \in PlanCampaign, N!Activate(u, c) PROVE CampaignsKept'
  <2>1. granted' = [granted EXCEPT ![u] = None] /\ granted[u] = <<c, "activate">>
    BY <1>6 DEF N!Activate
  <2>2. \A d \in PlanCampaign, v \in Handler :
          granted'[v] = <<d, "activate">> => granted[v] = <<d, "activate">>
    BY <1>0, <2>1 DEF PlansTyped
  <2>3. Allowed' \subseteq Allowed /\ c \in Allowed
    BY <2>1, <2>2 DEF Allowed
  <2>4. QED
    BY <1>2, <1>3, <1>6, <2>3 DEF N!Activate
<1>7. ASSUME NEW u \in Handler, NEW x \in Experiment,
             N!AskExperiment(u, x) \/ N!CreateExperiment(u, x)
      PROVE  CampaignsKept'
  <2>1. /\ granted' = [granted EXCEPT ![u] = <<x, "create">>]
           \/ granted' = [granted EXCEPT ![u] = None]
        /\ UNCHANGED <<active, changed>>
    BY <1>7 DEF N!AskExperiment, N!CreateExperiment
  <2>2. \A d \in PlanCampaign, v \in Handler :
          granted'[v] = <<d, "activate">> => granted[v] = <<d, "activate">>
    BY <1>0, <2>1, SMTT(30) DEF PlansTyped
  <2>3. Allowed' \subseteq Allowed
    BY <2>2 DEF Allowed
  <2>4. QED
    BY <1>2, <1>3, <2>1, <2>3
<1>8. ASSUME NEW c \in PlanCampaign, N!Pause(c) PROVE CampaignsKept'
  <2>1. active' \subseteq active /\ Allowed' = Allowed /\ UNCHANGED changed
    BY <1>8 DEF N!Pause, Allowed
  <2>2. QED
    BY <1>2, <1>3, <2>1
<1>9. ASSUME NEW p \in Plan, N!SetPlan(p) PROVE CampaignsKept'
  BY <1>9, SMTT(30) DEF N!SetPlan, CampaignsKept
<1>10. QED
  BY <1>4, <1>5, <1>6, <1>7, <1>8, <1>9
     DEF N!Next, N!vars, N!MoveExperiment, N!ClaimEmail, N!EndEmail, N!Reserve, N!Settle,
         N!Suspend, N!TrialEnds, N!MonthPasses

LEMMA EmailsStep ==
    PlansTyped /\ EmailsKept /\ [N!Next]_N!vars => EmailsKept'
<1> SUFFICES ASSUME PlansTyped, EmailsKept, [N!Next]_N!vars PROVE EmailsKept'
  OBVIOUS
<1>1. /\ IsFiniteSet(sending) /\ Cardinality(sending) \in Nat
      /\ Cardinality(sending) <= Cardinality(Daemon)
  BY ActorsAssumption, PlansAssumption, FS_Subset, FS_CardinalityType DEF PlansTyped
<1>2. ASSUME UNCHANGED <<emails, sending, changed>> PROVE EmailsKept'
  BY <1>2 DEF EmailsKept, Free
<1>3. ASSUME NEW w \in Daemon, N!ClaimEmail(w) PROVE EmailsKept'
  <2>1. /\ sending' = sending \cup {w} /\ UNCHANGED <<plan, emails, changed>>
        /\ ~N!Over(emails, N!Limit.emails)
    BY <1>3 DEF N!ClaimEmail, N!SendAllowed
  <2>2. Cardinality(sending') \in Nat /\ Cardinality(sending') <= Cardinality(Daemon)
    BY <2>1, ActorsAssumption, PlansAssumption, FS_Subset, FS_CardinalityType DEF PlansTyped
  <2>3. ASSUME ~changed, Free.emails # Unlimited PROVE emails < Free.emails /\ emails \in Nat
    BY <2>1, <2>3, Frees DEF N!Over, N!Limit, Free, PlansTyped
  <2>4. QED
    BY <2>1, <2>2, <2>3, Frees DEF EmailsKept, Free
<1>4. ASSUME NEW w \in Daemon, NEW ok \in BOOLEAN, N!EndEmail(w, ok) PROVE EmailsKept'
  <2>1. /\ w \in sending /\ sending' = sending \ {w} /\ UNCHANGED <<plan, changed>>
        /\ emails' <= emails + 1 /\ emails \in Nat /\ emails' \in Nat
    BY <1>4 DEF N!EndEmail, PlansTyped
  <2>2. Cardinality(sending') = Cardinality(sending) - 1 /\ sending # {}
    BY <1>1, <2>1, FS_RemoveElement, SMTT(30)
  <2>3. QED
    BY <1>1, <2>1, <2>2, Frees DEF EmailsKept, Free
<1>5. ASSUME NEW p \in Plan, N!SetPlan(p) PROVE EmailsKept'
  BY <1>5 DEF N!SetPlan, EmailsKept
<1>6. CASE N!MonthPasses
  <2>1. emails' = 0 /\ UNCHANGED <<plan, sending, changed>>
    BY <1>6 DEF N!MonthPasses
  <2>2. sending = {} => Cardinality(sending) = 0
    BY FS_EmptySet, SMTT(30)
  <2>3. QED
    BY <1>1, <2>1, <2>2, Frees DEF EmailsKept, Free
<1>7. QED
  BY <1>2, <1>3, <1>4, <1>5, <1>6
     DEF N!Next, N!vars, N!AskActivate, N!Activate, N!AskExperiment, N!CreateExperiment, N!Pause,
         N!MoveExperiment, N!Reserve, N!Settle, N!Suspend, N!TrialEnds

LEMMA ProspectsStep ==
    PlansTyped /\ ProspectsKept /\ [N!Next]_N!vars => ProspectsKept'
<1> SUFFICES ASSUME PlansTyped, ProspectsKept, [N!Next]_N!vars PROVE ProspectsKept'
  OBVIOUS
<1>1. PlansTyped'
  BY PlansTypedStep
<1>2. Ints(Entry, BuyingRun) /\ Ints(Entry', BuyingRun) /\ SumOf(Entry, BuyingRun) \in Int
  BY <1>1, EntriesCount DEF PlansTyped, Ints, Entry
<1>3. SumOf(Entry, BuyingRun)' = SumOf(Entry', BuyingRun)
  BY DEF SumOf, MapThenSumSet, MapThenFoldSet
<1>4. ASSUME UNCHANGED <<reserved, changed>> PROVE ProspectsKept'
  BY <1>3, <1>4 DEF ProspectsKept, Free, Entry
<1>5. ASSUME NEW r \in BuyingRun, NEW n \in Nat, reserved' = [reserved EXCEPT ![r] = n]
      PROVE  SumOf(Entry', BuyingRun) = SumOf(Entry, BuyingRun) + (n - Entry[r])
  <2>1. Entry'[r] = n /\ \A x \in BuyingRun \ {r} : Entry[x] = Entry'[x]
    BY <1>5, ActorsAssumption, PlansAssumption DEF Entry, PlansTyped
  <2>2. PICK f, g : f = Entry /\ g = Entry'
    OBVIOUS
  <2>3. /\ IsFiniteSet(BuyingRun) /\ Ints(f, BuyingRun) /\ Ints(g, BuyingRun)
        /\ \A x \in BuyingRun \ {r} : f[x] = g[x]
    BY <1>2, <2>1, <2>2, ActorsAssumption, PlansAssumption
  <2>4. SumOf(g, BuyingRun) = SumOf(f, BuyingRun) + (g[r] - f[r])
    BY ONLY <2>3, r \in BuyingRun, SumOfChanged
  <2>5. QED
    BY <2>1, <2>2, <2>4
<1>6. ASSUME NEW r \in BuyingRun, NEW n \in 0..MaxRequested, N!Reserve(r, n) PROVE ProspectsKept'
  <2>1. /\ reserved[r] = None /\ N!Granted(n) > 0 /\ UNCHANGED <<plan, changed>>
        /\ reserved' = [reserved EXCEPT ![r] = N!Granted(n)]
    BY <1>6 DEF N!Reserve
  <2>2. /\ N!Granted(n) \in Nat
        /\ ~changed /\ Free.prospects # Unlimited =>
              SumOf(Entry, BuyingRun) + N!Granted(n) <= Free.prospects
    BY ONLY PlansTyped, n \in 0..MaxRequested, <2>1, GrantedFits
  <2>3. Entry[r] = 0
    BY <2>1 DEF Entry
  <2>4. SumOf(Entry', BuyingRun) = SumOf(Entry, BuyingRun) + (N!Granted(n) - Entry[r])
    BY <1>5, <2>1, <2>2
  <2>5. QED
    BY <1>2, <1>3, <2>1, <2>2, <2>3, <2>4 DEF ProspectsKept, Free
<1>7. ASSUME NEW r \in BuyingRun, NEW n \in 0..MaxRequested, N!Settle(r, n) PROVE ProspectsKept'
  <2>1. /\ reserved[r] # None /\ n < reserved[r] /\ UNCHANGED <<plan, changed>>
        /\ reserved' = [reserved EXCEPT ![r] = n]
    BY <1>7 DEF N!Settle
  <2>2. Entry[r] = reserved[r] /\ Entry[r] \in Int /\ n \in Nat
    BY <1>2, <2>1, ActorsAssumption, PlansAssumption DEF Entry, Ints
  <2>3. SumOf(Entry', BuyingRun) = SumOf(Entry, BuyingRun) + (n - Entry[r])
    BY <1>5, <2>1, <2>2
  <2>4. QED
    BY <1>2, <1>3, <2>1, <2>2, <2>3, Frees DEF ProspectsKept, Free
<1>8. ASSUME NEW p \in Plan, N!SetPlan(p) PROVE ProspectsKept'
  BY <1>8 DEF N!SetPlan, ProspectsKept
<1>9. CASE N!MonthPasses
  <2>1. reserved' = [r \in BuyingRun |-> None] /\ UNCHANGED <<plan, changed>>
    BY <1>9 DEF N!MonthPasses
  <2>2. SumOf(Entry', BuyingRun) = 0
    <3>1. \A r \in BuyingRun : Entry'[r] = 0
      BY <2>1 DEF Entry
    <3>2. PICK f : f = Entry'
      OBVIOUS
    <3>3. QED
      BY <3>1, <3>2, ActorsAssumption, PlansAssumption, SumOfZeros
  <2>3. QED
    BY <1>3, <2>1, <2>2, Frees DEF ProspectsKept, Free
<1>10. QED
  BY <1>4, <1>6, <1>7, <1>8, <1>9
     DEF N!Next, N!vars, N!AskActivate, N!Activate, N!AskExperiment, N!CreateExperiment, N!Pause,
         N!MoveExperiment, N!ClaimEmail, N!EndEmail, N!Suspend, N!TrialEnds

(* No run has more entered than it asked for. *)
ReservedTyped ==
    /\ experiment \in [Experiment -> N!Status \cup {None}]
    /\ reserved \in [BuyingRun -> (0..MaxRequested) \cup {None}]

LEMMA RemainingCounts == ASSUME PlansTyped PROVE N!Remaining \in Int
<1>1. /\ MaxRequested \in Nat /\ N!Prospects \in Int
      /\ N!Limit.prospects = Unlimited \/ N!Limit.prospects \in Nat
  BY EntriesCount, PlansAssumption DEF N!Limit, PlansTyped
<1>2. ASSUME N!Limit.prospects # Unlimited
      PROVE  N!Max({0, N!Limit.prospects - N!Prospects}) \in Int
  <2>1. PICK rest \in Int : rest = N!Limit.prospects - N!Prospects
    BY <1>1, <1>2
  <2>2. N!Max({0, rest}) \in {0, rest}
    BY ONLY 0 \in Int, rest \in Int, MinMaxOfTwo
  <2>3. QED
    BY <2>1, <2>2
<1>3. QED
  BY <1>1, <1>2 DEF N!Remaining

LEMMA ReservedStep == PlansTyped /\ ReservedTyped /\ [N!Next]_N!vars => ReservedTyped'
<1> SUFFICES ASSUME PlansTyped, ReservedTyped, [N!Next]_N!vars PROVE ReservedTyped'
  OBVIOUS
<1> USE DEF ReservedTyped
<1>1. ASSUME UNCHANGED <<experiment, reserved>> PROVE ReservedTyped'
  BY <1>1
<1>2. ASSUME NEW u \in Handler, NEW x \in Experiment, N!CreateExperiment(u, x)
      PROVE  ReservedTyped'
  BY <1>2 DEF N!CreateExperiment, N!Status
<1>3. ASSUME NEW x \in Experiment, N!MoveExperiment(x) PROVE ReservedTyped'
  BY <1>3 DEF N!MoveExperiment, N!Status
<1>4. ASSUME NEW r \in BuyingRun, NEW n \in 0..MaxRequested, N!Reserve(r, n)
      PROVE  ReservedTyped'
  <2>1. N!Granted(n) > 0 /\ reserved' = [reserved EXCEPT ![r] = N!Granted(n)]
        /\ UNCHANGED experiment
    BY <1>4 DEF N!Reserve
  <2>2. N!Granted(n) \in Nat /\ N!Granted(n) <= n
    <3>1. N!Granted(n) \in Nat
      BY ONLY PlansTyped, n \in 0..MaxRequested, <2>1, GrantedFits
    <3>2. N!Remaining \in Int => N!Granted(n) <= n
      BY MinMaxOfTwo, n \in Int DEF N!Granted
    <3>3. N!Remaining \in Int
      BY RemainingCounts
    <3>4. QED
      BY <3>1, <3>2, <3>3
  <2>3. N!Granted(n) \in 0..MaxRequested
    BY <2>2, PlansAssumption
  <2>4. QED
    BY <2>1, <2>3
<1>5. ASSUME NEW r \in BuyingRun, NEW n \in 0..MaxRequested, N!Settle(r, n)
      PROVE  ReservedTyped'
  BY <1>5 DEF N!Settle
<1>6. CASE N!MonthPasses
  BY <1>6 DEF N!MonthPasses
<1> HIDE DEF ReservedTyped
<1>7. QED
  BY <1>1, <1>2, <1>3, <1>4, <1>5, <1>6
     DEF N!Next, N!vars, N!AskActivate, N!Activate, N!AskExperiment, N!Pause, N!ClaimEmail,
         N!EndEmail, N!SetPlan, N!Suspend, N!TrialEnds

LEMMA PlansAreTyped == N!Spec => []N!TypeOK
<1> DEFINE Signs == late \in BOOLEAN /\ suspended \in BOOLEAN
<1>1. N!Init => PlansTyped /\ ReservedTyped /\ Signs
  <2> SUFFICES ASSUME N!Init PROVE PlansTyped /\ ReservedTyped /\ Signs
    OBVIOUS
  <2>1. /\ plan = "FREE" /\ active = {} /\ emails = 0 /\ sending = {}
        /\ reserved = [r \in BuyingRun |-> None] /\ granted = [u \in Handler |-> None]
        /\ changed = FALSE /\ experiment = [x \in Experiment |-> None]
    BY DEF N!Init
  <2>2. PlansTyped
    BY <2>1, ActorsAssumption, PlansAssumption, FS_EmptySet DEF PlansTyped
  <2>3. ReservedTyped
    BY <2>1 DEF ReservedTyped
  <2>4. Signs
    BY Zenon DEF N!Init
  <2>5. QED
    BY <2>2, <2>3, <2>4
<1>2. Signs /\ [N!Next]_N!vars => Signs'
  <2> SUFFICES ASSUME Signs, [N!Next]_N!vars PROVE Signs'
    OBVIOUS
  <2>1. (late' = late \/ late' = TRUE) /\ (suspended' = suspended \/ suspended' = ~suspended)
    BY Zenon
       DEF N!Next, N!vars, N!AskActivate, N!Activate, N!AskExperiment, N!CreateExperiment,
           N!MoveExperiment, N!Pause, N!ClaimEmail, N!EndEmail, N!Reserve, N!Settle, N!SetPlan,
           N!Suspend, N!TrialEnds, N!MonthPasses
  <2>2. QED
    BY <2>1, Zenon
<1>3. PlansTyped /\ ReservedTyped /\ Signs => N!TypeOK
  <2> SUFFICES ASSUME PlansTyped, ReservedTyped, Signs PROVE N!TypeOK
    OBVIOUS
  <2>1. /\ plan \in Plan /\ active \subseteq PlanCampaign /\ emails \in Nat
        /\ sending \subseteq Daemon /\ granted \in [Handler -> N!Wish \cup {None}]
    BY DEF PlansTyped
  <2>2. changed \in BOOLEAN
    BY Zenon DEF PlansTyped
  <2>3. QED
    BY <2>1, <2>2, Zenon DEF ReservedTyped, N!TypeOK
<1>4. QED
  BY <1>1, <1>2, <1>3, PlansTypedStep, ReservedStep, PTL DEF N!Spec

LEMMA PlansHold == N!Spec => []N!OverrunByOverlapOnly
<1>1. ASSUME N!Init PROVE PlansInv
  <2>1. /\ plan = "FREE" /\ active = {} /\ emails = 0 /\ sending = {}
        /\ reserved = [r \in BuyingRun |-> None] /\ granted = [u \in Handler |-> None]
        /\ changed = FALSE
    BY <1>1 DEF N!Init
  <2>2. PlansTyped
    BY <2>1, ActorsAssumption, PlansAssumption, FS_EmptySet DEF PlansTyped
  <2>3. Coming = {} /\ From(Coming) = {}
    BY <2>1, ActorsAssumption, PlansAssumption DEF Coming, Allowed, From
  <2>4. CampaignsKept /\ EmailsKept
    BY <2>1, <2>3, Frees, FS_EmptySet, SMTT(30) DEF CampaignsKept, EmailsKept
  <2>5. SumOf(Entry, BuyingRun) = 0
    <3>1. \A r \in BuyingRun : Entry[r] = 0
      BY <2>1 DEF Entry
    <3>2. PICK f : f = Entry
      OBVIOUS
    <3>3. QED
      BY <3>1, <3>2, ActorsAssumption, PlansAssumption, SumOfZeros
  <2>6. ProspectsKept
    BY <2>5, Frees DEF ProspectsKept
  <2>7. QED
    BY <2>2, <2>4, <2>6 DEF PlansInv
<1>2. PlansInv /\ [N!Next]_N!vars => PlansInv'
  BY PlansTypedStep, CampaignsStep, EmailsStep, ProspectsStep DEF PlansInv
<1>3. PlansInv => N!OverrunByOverlapOnly
  <2> SUFFICES ASSUME PlansInv, ~changed
               PROVE  /\ N!Within(Cardinality(active), Free.campaigns, Cardinality(Handler) - 1)
                      /\ N!Within(Cardinality(From(active)), Free.senders, Cardinality(Handler) - 1)
                      /\ N!Within(emails, Free.emails, Cardinality(Daemon) - 1)
                      /\ N!Within(N!Prospects, Free.prospects, 0)
    <3>1. PlansInv /\ ~changed => N!Limit = Free
      BY DEF N!Limit, Free, PlansInv, PlansTyped
    <3>2. N!Senders = From(active)
      BY DEF N!Senders, From
    <3>3. QED
      BY <3>1, <3>2, SamePlans DEF N!OverrunByOverlapOnly
  <2>1. PlansTyped /\ CampaignsKept /\ EmailsKept /\ ProspectsKept
    BY DEF PlansInv
  <2>2. IsFiniteSet(Coming) /\ active \subseteq Coming
    BY <2>1, OnePerRequest, Together DEF Coming, Allowed, PlansTyped
  <2>3. /\ Cardinality(active) \in Nat /\ Cardinality(Coming) \in Nat
        /\ Cardinality(active) <= Cardinality(Coming)
        /\ Cardinality(From(active)) \in Nat /\ Cardinality(From(Coming)) \in Nat
        /\ Cardinality(From(active)) <= Cardinality(From(Coming))
    BY <2>2, FromFewer
  <2>4. Cardinality(sending) \in Nat /\ emails \in Nat
    BY <2>1, ActorsAssumption, PlansAssumption, FS_Subset, FS_CardinalityType DEF PlansTyped
  <2>5. N!Prospects = SumOf(Entry, BuyingRun) /\ SumOf(Entry, BuyingRun) \in Int
    BY <2>1, EntriesCount
  <2>6. /\ N!Within(Cardinality(active), Free.campaigns, Cardinality(Handler) - 1)
        /\ N!Within(Cardinality(From(active)), Free.senders, Cardinality(Handler) - 1)
    BY <2>1, <2>3, Frees DEF CampaignsKept, N!Within
  <2>7. N!Within(emails, Free.emails, Cardinality(Daemon) - 1)
    BY <2>1, <2>4, Frees DEF EmailsKept, N!Within
  <2>8. N!Within(N!Prospects, Free.prospects, 0)
    BY <2>1, <2>5, Frees DEF ProspectsKept, N!Within
  <2>9. QED
    BY <2>6, <2>7, <2>8
<1>4. QED
  BY <1>1, <1>2, <1>3, PTL DEF N!Spec

(* No limit is overrun but by calls that overlap, and the public endpoints' budgets hold:
   the plan's limits, the day's requests to a model, and the hour's of a caller and of an
   address (entitlements.ts:12, ai/router.ts, auth/index.ts). *)
THEOREM Limiting == Spec => []LimitsKept
  BY PlansHold, ChargesOverrun, ChatsBounded, BudgetsHold, PTL DEF Spec, LimitsKept
-----------------------------------------------------------------------------
(* Senders. *)

(* The ramp, step by step. *)
LEMMA RampIs ==
    /\ DOMAIN U!Ramp = 1..7
    /\ U!Ramp[1][1] = 0 /\ U!Ramp[2][1] = 3 /\ U!Ramp[3][1] = 7 /\ U!Ramp[4][1] = 14
    /\ U!Ramp[5][1] = 28 /\ U!Ramp[6][1] = 42 /\ U!Ramp[7][1] = 60
    /\ U!Ramp[1][2] = 10 /\ U!Ramp[2][2] = 20 /\ U!Ramp[3][2] = 30 /\ U!Ramp[4][2] = 50
    /\ U!Ramp[5][2] = 100 /\ U!Ramp[6][2] = 150 /\ U!Ramp[7][2] = 250
  BY DEF U!Ramp

(* The last step that a sender of this age has reached. *)
LEMMA RampStep ==
    ASSUME NEW age \in Nat
    PROVE  \E k \in 1..7 : /\ U!RampCap(age) = U!Ramp[k][2] /\ U!Ramp[k][1] <= age
                           /\ \A j \in 1..7 : U!Ramp[j][1] <= age => j <= k
<1> DEFINE reached == {k \in 1..7 : U!Ramp[k][1] <= age}
<1>1. \E k \in reached : \A j \in reached : j <= k
  <2>1. 1 \in reached
    BY RampIs
  <2>2. CASE 7 \in reached
    BY <2>2
  <2>3. CASE 7 \notin reached /\ 6 \in reached
    BY <2>3
  <2>4. CASE 7 \notin reached /\ 6 \notin reached /\ 5 \in reached
    BY <2>4
  <2>5. CASE 7 \notin reached /\ 6 \notin reached /\ 5 \notin reached /\ 4 \in reached
    BY <2>5
  <2>6. CASE /\ 7 \notin reached /\ 6 \notin reached /\ 5 \notin reached /\ 4 \notin reached
             /\ 3 \in reached
    BY <2>6
  <2>7. CASE /\ 7 \notin reached /\ 6 \notin reached /\ 5 \notin reached /\ 4 \notin reached
             /\ 3 \notin reached
    BY <2>1, <2>7
  <2>8. QED
    BY <2>2, <2>3, <2>4, <2>5, <2>6, <2>7
<1>2. reached = {k \in DOMAIN U!Ramp : age >= U!Ramp[k][1]}
  BY RampIs
<1>3. PICK k : k = CHOOSE i \in reached : \A j \in reached : j <= i
  OBVIOUS
<1>4. k \in reached /\ \A j \in reached : j <= k
  BY <1>1, <1>3
<1>5. U!RampCap(age) = U!Ramp[k][2]
  BY <1>2, <1>3 DEF U!RampCap
<1>6. QED
  BY <1>4, <1>5

(* An older sender is never lower on the ramp. *)
LEMMA RampRises ==
    ASSUME NEW young \in Nat, NEW old \in Nat, young <= old
    PROVE  /\ U!RampCap(young) \in 10..250 /\ U!RampCap(old) \in 10..250
           /\ U!RampCap(young) <= U!RampCap(old)
<1>1. PICK k \in 1..7 : U!RampCap(young) = U!Ramp[k][2] /\ U!Ramp[k][1] <= young
  BY RampStep
<1>2. PICK l \in 1..7 : /\ U!RampCap(old) = U!Ramp[l][2]
                        /\ \A j \in 1..7 : U!Ramp[j][1] <= old => j <= l
  BY RampStep
<1>3. k <= l
  <2>1. U!Ramp[k][1] \in Nat
    BY RampIs
  <2>2. QED
    BY <1>1, <1>2, <2>1
<1>4. U!Ramp[k][2] \in 10..250 /\ U!Ramp[l][2] \in 10..250 /\ U!Ramp[k][2] <= U!Ramp[l][2]
  BY <1>3, RampIs
<1>5. QED
  BY <1>1, <1>2, <1>4

(* Halving keeps the order and raises no cap of the ramp. *)
LEMMA HalvedRises ==
    ASSUME NEW low \in 10..250, NEW high \in 10..250, low <= high
    PROVE  U!Halved(low) \in 5..250 /\ U!Halved(low) <= U!Halved(high) /\ U!Halved(low) <= low
<1>1. /\ low \div 2 <= high \div 2 /\ low \div 2 <= low
      /\ low \div 2 \in 5..125 /\ high \div 2 \in 5..125
  OBVIOUS
<1>2. QED
  BY <1>1 DEF U!Halved

(* The figures of a sender, and figures that are worse. *)
Figures == [about : {"health"}, sent : Nat, bounces : Nat, complaints : Nat, dns : BOOLEAN,
            age : Nat]

(* Whatever a sender sent, bounces and complaints more and days less never raise its daily
   cap: neither the ramp nor a block nor the halving has a gap (senderHealth.ts:49). *)
THEOREM Capping ==
    ASSUME NEW h \in Figures, NEW g \in Figures,
           g.sent = h.sent, g.dns = h.dns, g.age <= h.age,
           h.bounces <= g.bounces, h.complaints <= g.complaints
    PROVE  U!HealthCap(g) <= U!HealthCap(h)
<1> DEFINE young == U!RampCap(g.age)
           old   == U!RampCap(h.age)
<1>1. young \in 10..250 /\ old \in 10..250 /\ young <= old
  BY RampRises, SMTT(30) DEF Figures
<1>7. PICK y \in 10..250, o \in 10..250 : y = young /\ o = old
  BY <1>1, ZenonT(40)
<1>2. /\ U!Halved(young) \in 5..250 /\ U!Halved(young) <= U!Halved(old)
      /\ U!Halved(young) <= young /\ U!Halved(old) \in 5..250
  <2>1. y <= o
    BY <1>1, <1>7, SMTT(30)
  <2>2. /\ U!Halved(y) \in 5..250 /\ U!Halved(y) <= U!Halved(o)
        /\ U!Halved(y) <= y
    BY <2>1, HalvedRises, ZenonT(40)
  <2>3. U!Halved(o) \in 5..250
    <3>1. o <= o
      OBVIOUS
    <3>2. QED
      BY <3>1, HalvedRises, ZenonT(40)
  <2>4. QED
    BY <1>7, <2>2, <2>3
<1> DEFINE blocked(x) == \/ x.complaints >= 1 /\ (x.sent < 1000 \/ x.complaints * 1000 >= x.sent)
                         \/ x.sent >= 20 /\ x.bounces * 20 >= x.sent
                         \/ x.sent < 20 /\ x.bounces >= 3
           halved(x)  == x.sent >= 20 /\ x.bounces * 50 >= x.sent
<1>3. (blocked(h) => blocked(g)) /\ (halved(h) => halved(g))
  BY DEF Figures
<1>4. U!HealthCap(h) = IF blocked(h) \/ ~ h.dns THEN 0 ELSE IF halved(h) THEN U!Halved(old) ELSE old
  BY DEF U!HealthCap
<1>5. U!HealthCap(g) =
        IF blocked(g) \/ ~ h.dns THEN 0 ELSE IF halved(g) THEN U!Halved(young) ELSE young
  BY DEF U!HealthCap
<1> HIDE DEF blocked, halved, young, old
<1>6. QED
  BY <1>1, <1>2, <1>3, <1>4, <1>5

(* What one thing more of the bad, or a younger age, does to a cap. *)
LEMMA WorseFigures ==
    ASSUME NEW h \in Figures
    PROVE  /\ U!HealthCap([h EXCEPT !.bounces = @ + 1]) <= U!HealthCap(h)
           /\ U!HealthCap([h EXCEPT !.complaints = @ + 1]) <= U!HealthCap(h)
           /\ \A age \in 0..h.age : U!HealthCap([h EXCEPT !.age = age]) <= U!HealthCap(h)
<1>1. ASSUME NEW g, g = [h EXCEPT !.bounces = @ + 1]
      PROVE  U!HealthCap(g) <= U!HealthCap(h)
  <2>1. /\ g \in Figures /\ g.sent = h.sent /\ g.dns = h.dns /\ g.age <= h.age
        /\ h.bounces <= g.bounces /\ h.complaints <= g.complaints
    BY <1>1 DEF Figures
  <2>2. QED
    BY <2>1, Capping
<1>2. ASSUME NEW g, g = [h EXCEPT !.complaints = @ + 1]
      PROVE  U!HealthCap(g) <= U!HealthCap(h)
  <2>1. /\ g \in Figures /\ g.sent = h.sent /\ g.dns = h.dns /\ g.age <= h.age
        /\ h.bounces <= g.bounces /\ h.complaints <= g.complaints
    BY <1>2 DEF Figures
  <2>2. QED
    BY <2>1, Capping
<1>3. ASSUME NEW age \in 0..h.age, NEW g, g = [h EXCEPT !.age = age]
      PROVE  U!HealthCap(g) <= U!HealthCap(h)
  <2>1. /\ g \in Figures /\ g.sent = h.sent /\ g.dns = h.dns /\ g.age <= h.age
        /\ h.bounces <= g.bounces /\ h.complaints <= g.complaints
    BY <1>3 DEF Figures
  <2>2. QED
    BY <2>1, Capping
<1>4. QED
  BY <1>1, <1>2, <1>3
-----------------------------------------------------------------------------
(* Replies. *)

(* The patterns, in their order. *)
LEMMA PatternsAre ==
    /\ DOMAIN U!Patterns = 1..10
    /\ U!Patterns[1] = <<"negative", "NEGATIVE">> /\ U!Patterns[2] = <<"delivery", "UNSURE">>
    /\ U!Patterns[3] = <<"office", "OUT_OF_OFFICE">> /\ U!Patterns[4] = <<"injection", "UNSURE">>
    /\ U!Patterns[5] = <<"referral", "UNSURE">> /\ U!Patterns[6] = <<"existing", "UNSURE">>
    /\ U!Patterns[7] = <<"topic", "OBJECTION">> /\ U!Patterns[8] = <<"hedge", "UNSURE">>
    /\ U!Patterns[9] = <<"mark", "OBJECTION">> /\ U!Patterns[10] = <<"positive", "POSITIVE">>
  BY DEF U!Patterns

(* The pattern that decides is the first of those the text contains. *)
LEMMA FirstSign ==
    ASSUME NEW signs, NEW j \in 1..10, U!Patterns[j][1] \in signs
    PROVE  \E k \in 1..j :
             /\ U!Patterns[k][1] \in signs
             /\ \A i \in 1..10 : U!Patterns[i][1] \in signs => k <= i
             /\ U!Classify(signs) = IF U!Patterns[k][1] = "positive" /\ "long" \in signs
                                    THEN "UNSURE" ELSE U!Patterns[k][2]
<1> DEFINE hits == {i \in DOMAIN U!Patterns : U!Patterns[i][1] \in signs}
<1>1. hits \in SUBSET Nat /\ j \in hits
  BY PatternsAre
<1>2. \E k \in hits : \A i \in hits : k <= i
  BY <1>1, Least
<1>3. PICK k : k = CHOOSE n \in hits : \A i \in hits : n <= i
  OBVIOUS
<1>4. k \in hits /\ \A i \in hits : k <= i
  BY <1>2, <1>3
<1>5. U!Classify(signs) = IF U!Patterns[k][1] = "positive" /\ "long" \in signs
                          THEN "UNSURE" ELSE U!Patterns[k][2]
  <2> DEFINE first == CHOOSE n \in hits : \A i \in hits : n <= i
  <2>1. U!Classify(signs) = IF hits = {} \/ (U!Patterns[first][1] = "positive" /\ "long" \in signs)
                            THEN "UNSURE" ELSE U!Patterns[first][2]
    BY Zenon DEF U!Classify
  <2> HIDE DEF first
  <2>2. k = first
    BY <1>3 DEF first
  <2>3. QED
    BY <1>1, <2>1, <2>2
<1>6. k \in 1..j /\ \A i \in 1..10 : U!Patterns[i][1] \in signs => k <= i
  BY <1>1, <1>4, PatternsAre
<1>7. QED
  BY <1>4, <1>5, <1>6

(* Only a yes and nothing else is a yes, and a no stays one. *)
LEMMA OnlyYes ==
    ASSUME NEW signs \in SUBSET U!Signs
    PROVE  /\ U!Classify(signs) = "POSITIVE" <=> signs = {"positive"}
           /\ "negative" \in signs => U!Classify(signs) = "NEGATIVE"
<1>1. \A s \in signs : s = "long" \/ \E k \in 1..10 : s = U!Patterns[k][1]
  BY PatternsAre DEF U!Signs
<1>2. ASSUME "negative" \in signs PROVE U!Classify(signs) = "NEGATIVE"
  <2>1. PICK k \in 1..1 : U!Classify(signs) = IF U!Patterns[k][1] = "positive" /\ "long" \in signs
                                             THEN "UNSURE" ELSE U!Patterns[k][2]
    BY <1>2, PatternsAre, FirstSign
  <2>2. QED
    BY <2>1, PatternsAre, SMTT(30)
<1>3. ASSUME signs = {"positive"} PROVE U!Classify(signs) = "POSITIVE"
  <2>1. PICK k \in 1..10 : /\ U!Patterns[k][1] \in signs
                           /\ U!Classify(signs) = IF U!Patterns[k][1] = "positive" /\ "long" \in signs
                                                  THEN "UNSURE" ELSE U!Patterns[k][2]
    BY <1>3, PatternsAre, FirstSign
  <2>2. k = 10
    BY <1>3, <2>1, PatternsAre
  <2>3. QED
    BY <1>3, <2>1, <2>2, PatternsAre
<1>4. ASSUME U!Classify(signs) = "POSITIVE" PROVE signs = {"positive"}
  <2>1. PICK j \in 1..10 : U!Patterns[j][1] \in signs
    <3>1. ASSUME {i \in DOMAIN U!Patterns : U!Patterns[i][1] \in signs} = {} PROVE FALSE
      BY <1>4, <3>1 DEF U!Classify
    <3>2. QED
      BY <3>1, PatternsAre
  <2>2. PICK k \in 1..j : /\ U!Patterns[k][1] \in signs
                          /\ \A i \in 1..10 : U!Patterns[i][1] \in signs => k <= i
                          /\ U!Classify(signs) = IF U!Patterns[k][1] = "positive" /\ "long" \in signs
                                                 THEN "UNSURE" ELSE U!Patterns[k][2]
    BY <2>1, FirstSign
  <2>3. k = 10 /\ "long" \notin signs
    BY <1>4, <2>2, PatternsAre
  <2>4. \A i \in 1..9 : U!Patterns[i][1] \notin signs
    BY <2>2, <2>3
  <2>5. \A s \in signs : s = "positive"
    <3>1. \A s \in signs : \E i \in 1..10 : s = U!Patterns[i][1]
      BY <1>1, <2>3
    <3>2. \A s \in signs : s = U!Patterns[10][1]
      BY <2>4, <3>1
    <3>3. QED
      BY <3>2, PatternsAre
  <2>6. "positive" \in signs
    BY <2>2, <2>3, PatternsAre
  <2>7. QED
    BY <2>5, <2>6
<1>5. QED
  BY <1>2, <1>3, <1>4
-----------------------------------------------------------------------------
(* Clocks: the local hour is kept, or missed by the hour that the clock left out. *)
LEMMA LocalHour ==
    ASSUME NEW d \in Int, NEW c \in Int, NEW b \in -14..14, NEW a \in {b - 1, b + 1},
           NEW zone, zone = [change |-> c, before |-> b, after |-> a]
    PROVE  LET got == U!Local(U!FromLocal(d, zone), zone) IN
           IF \E t \in d - 24..d + 24 : U!Local(t, zone) = d
           THEN got = d ELSE got \in {d - 1, d + 1}
<1> DEFINE step(t) == IF t < c THEN d - b ELSE d - a
<1>1. \A t \in Int : U!Local(t, zone) = t + (IF t < c THEN b ELSE a)
  BY DEF U!Local
<1>2. \A t \in Int : t + (d - U!Local(t, zone)) = step(t) /\ step(t) \in Int
  BY <1>1
<1>3. U!FromLocal(d, zone) = step(step(step(step(d))))
  BY <1>2 DEF U!FromLocal
<1>4. QED
  <2>1. PICK t1 \in Int : t1 = step(d)
    OBVIOUS
  <2>2. PICK t2 \in Int : t2 = step(t1)
    BY <1>2
  <2>3. PICK t3 \in Int : t3 = step(t2)
    BY <1>2
  <2>4. PICK t4 \in Int : t4 = step(t3)
    BY <1>2
  <2>5. U!FromLocal(d, zone) = t4
    BY <1>3, <2>1, <2>2, <2>3, <2>4
  <2>6. CASE d - b < c
    <3>1. t4 = d - b \/ (t4 = d - a /\ d - a >= c)
      BY <2>1, <2>2, <2>3, <2>4, <2>6
    <3>2. U!Local(t4, zone) = d /\ t4 \in d - 24..d + 24
      BY <1>1, <2>6, <3>1
    <3>3. QED
      BY <2>5, <3>2
  <2>7. CASE d - b >= c /\ d - a >= c
    <3>1. t4 = d - a
      BY <2>1, <2>2, <2>3, <2>4, <2>7
    <3>2. U!Local(t4, zone) = d /\ t4 \in d - 24..d + 24
      BY <1>1, <2>7, <3>1
    <3>3. QED
      BY <2>5, <3>2
  <2>8. CASE d - b >= c /\ d - a < c
    <3>1. t4 \in {d - b, d - a}
      BY <2>4
    <3>2. U!Local(t4, zone) \in {d - 1, d + 1}
      BY <1>1, <2>8, <3>1
    <3>3. \A t \in d - 24..d + 24 : U!Local(t, zone) # d
      BY <1>1, <2>8
    <3>4. QED
      BY <2>5, <3>2, <3>3
  <2>9. QED
    BY <2>6, <2>7, <2>8
-----------------------------------------------------------------------------
(* Waits. *)

(* The days of Work after d, up to e. *)
Until(Work, d, e) == {x \in d + 1..e : x \in Work}

(* e is the r-th day of Work after d. *)
Nth(Work, d, r, e) == e > d /\ e \in Work /\ Cardinality(Until(Work, d, e)) = r

LEMMA UntilCounts ==
    ASSUME NEW Work, NEW d \in Nat, NEW e \in Nat
    PROVE  /\ IsFiniteSet(Until(Work, d, e)) /\ Cardinality(Until(Work, d, e)) \in Nat
           /\ e <= d => Cardinality(Until(Work, d, e)) = 0
<1>1. Until(Work, d, e) \subseteq d + 1..e /\ IsFiniteSet(d + 1..e)
  BY FS_Interval DEF Until
<1>2. e <= d => Until(Work, d, e) = {}
  BY DEF Until
<1>3. QED
  BY <1>1, <1>2, FS_Subset, FS_CardinalityType, FS_EmptySet

(* A day more at its end, or at its beginning. *)
LEMMA UntilLater ==
    ASSUME NEW Work, NEW d \in Nat, NEW e \in Nat, d <= e
    PROVE  Cardinality(Until(Work, d, e + 1))
             = IF e + 1 \in Work THEN Cardinality(Until(Work, d, e)) + 1 ELSE Cardinality(Until(Work, d, e))
<1>1. e + 1 \notin Work => Until(Work, d, e + 1) = Until(Work, d, e)
  BY DEF Until
<1>2. e + 1 \in Work => Until(Work, d, e + 1) = Until(Work, d, e) \cup {e + 1} /\ e + 1 \notin Until(Work, d, e)
  BY DEF Until
<1>3. QED
  BY <1>1, <1>2, UntilCounts, FS_AddElement

LEMMA UntilSooner ==
    ASSUME NEW Work, NEW d \in Nat, NEW e \in Nat, d < e
    PROVE  Cardinality(Until(Work, d, e))
             = IF d + 1 \in Work THEN Cardinality(Until(Work, d + 1, e)) + 1
               ELSE Cardinality(Until(Work, d + 1, e))
<1>1. d + 1 \notin Work => Until(Work, d, e) = Until(Work, d + 1, e)
  BY DEF Until
<1>2. d + 1 \in Work => /\ Until(Work, d, e) = Until(Work, d + 1, e) \cup {d + 1}
                     /\ d + 1 \notin Until(Work, d + 1, e)
  BY DEF Until
<1>3. d + 1 \in Nat
  OBVIOUS
<1>4. QED
  BY <1>1, <1>2, <1>3, UntilCounts, FS_AddElement

LEMMA UntilGrows ==
    ASSUME NEW Work, NEW d \in Nat, NEW e \in Nat, NEW f \in Nat, e <= f
    PROVE  Cardinality(Until(Work, d, e)) <= Cardinality(Until(Work, d, f))
<1>1. Until(Work, d, e) \subseteq Until(Work, d, f)
  BY DEF Until
<1>2. QED
  BY <1>1, UntilCounts, FS_Subset

(* There is only one r-th day. *)
LEMMA NthUnique ==
    ASSUME NEW Work, NEW d \in Nat, NEW r \in Nat, NEW e \in Nat, NEW f \in Nat,
           Nth(Work, d, r, e), Nth(Work, d, r, f)
    PROVE  e = f
<1>1. ASSUME NEW x \in Nat, NEW y \in Nat, x < y, Nth(Work, d, r, x), Nth(Work, d, r, y) PROVE FALSE
  <2>1. y - 1 \in Nat /\ d <= y - 1 /\ x <= y - 1 /\ (y - 1) + 1 = y
    BY <1>1 DEF Nth
  <2>2. Cardinality(Until(Work, d, x)) <= Cardinality(Until(Work, d, y - 1))
    BY <2>1, UntilGrows
  <2>3. Cardinality(Until(Work, d, (y - 1) + 1)) = Cardinality(Until(Work, d, y - 1)) + 1
    BY <1>1, <2>1, UntilLater DEF Nth
  <2>4. Cardinality(Until(Work, d, y - 1)) \in Nat
    BY <2>1, UntilCounts
  <2>5. QED
    BY <1>1, <2>1, <2>2, <2>3, <2>4 DEF Nth
<1>2. QED
  BY <1>1

(* The days of Work never end. *)
Endless(Work) == Work \in SUBSET Nat /\ \A d \in Nat : \E e \in Work : e > d

LEMMA NthExists ==
    ASSUME NEW Work, Endless(Work), NEW d \in Nat
    PROVE  \A r \in Nat : r > 0 => \E e \in Nat : Nth(Work, d, r, e)
<1> DEFINE Good(m) == m > 0 => \E e \in Nat : Nth(Work, d, m, e)
<1>1. ASSUME NEW c \in Nat, d <= c, NEW n \in Nat, Cardinality(Until(Work, d, c)) = n
      PROVE  \E e \in Nat : Nth(Work, d, n + 1, e)
  <2> DEFINE after == {x \in Work : x > c}
  <2>1. after \in SUBSET Nat /\ after # {}
    BY DEF Endless
  <2>2. PICK e \in after : \A x \in after : e <= x
    BY <2>1, Least
  <2>3. e \in Nat /\ e - 1 \in Nat /\ c <= e - 1 /\ (e - 1) + 1 = e /\ e \in Work /\ d <= e - 1
    BY <1>1, <2>1, <2>2
  <2>4. Until(Work, d, e - 1) = Until(Work, d, c)
    <3>1. \A x \in Until(Work, d, e - 1) : x <= c
      BY <2>1, <2>2, <2>3 DEF Until, Endless
    <3>2. QED
      BY <2>3, <3>1 DEF Until
  <2>5. Cardinality(Until(Work, d, (e - 1) + 1)) = Cardinality(Until(Work, d, e - 1)) + 1
    BY <2>3, UntilLater
  <2>6. Nth(Work, d, n + 1, e)
    BY <1>1, <2>3, <2>4, <2>5 DEF Nth
  <2>7. QED
    BY <2>3, <2>6
<1>2. Good(1)
  <2>1. Cardinality(Until(Work, d, d)) = 0
    BY UntilCounts
  <2>2. QED
    BY <1>1, <2>1
<1>3. ASSUME NEW m \in Nat, m > 0, Good(m) PROVE Good(m + 1)
  <2>1. PICK c \in Nat : Nth(Work, d, m, c)
    BY <1>3
  <2>2. d <= c /\ Cardinality(Until(Work, d, c)) = m
    BY <2>1 DEF Nth
  <2>3. QED
    BY <1>1, <1>3, <2>2
<1> HIDE DEF Good
<1>4. \A m \in Nat : Good(m)
  <2>1. SUFFICES ASSUME {m \in Nat : ~Good(m)} # {} PROVE FALSE
    OBVIOUS
  <2>2. PICK m \in {q \in Nat : ~Good(q)} : \A q \in {r \in Nat : ~Good(r)} : m <= q
    BY <2>1, Least
  <2>3. m > 1 /\ m - 1 \in Nat /\ m - 1 > 0 /\ (m - 1) + 1 = m
    <3>1. Good(0)
      BY DEF Good
    <3>2. m \in Nat /\ m # 0 /\ m # 1
      BY <1>2, <2>2, <3>1
    <3>3. QED
      BY <3>2
  <2>4. Good(m - 1)
    BY <2>2, <2>3
  <2>5. Good((m - 1) + 1)
    BY <1>3, <2>3, <2>4
  <2>6. QED
    BY <2>2, <2>3, <2>5
<1>5. QED
  BY <1>4 DEF Good

(* The r-th day after d is the (r-1)-th or the r-th after the day behind d. *)
LEMMA NthOnward ==
    ASSUME NEW Work, NEW d \in Nat, NEW r \in Nat, r > 0, NEW e \in Nat, Nth(Work, d, r, e)
    PROVE  \/ d + 1 \in Work /\ r = 1 /\ e = d + 1
           \/ d + 1 \in Work /\ r > 1 /\ Nth(Work, d + 1, r - 1, e)
           \/ d + 1 \notin Work /\ Nth(Work, d + 1, r, e)
<1>1. e > d /\ e \in Work /\ Cardinality(Until(Work, d, e)) = r /\ d + 1 \in Nat
  BY DEF Nth
<1>2. Cardinality(Until(Work, d + 1, e)) \in Nat
  BY <1>1, UntilCounts
<1>3. Cardinality(Until(Work, d, e)) = IF d + 1 \in Work THEN Cardinality(Until(Work, d + 1, e)) + 1
                                    ELSE Cardinality(Until(Work, d + 1, e))
  BY <1>1, UntilSooner
<1>4. CASE e = d + 1
  <2>1. Cardinality(Until(Work, d + 1, e)) = 0
    BY <1>1, <1>4, UntilCounts
  <2>2. QED
    BY <1>1, <1>3, <1>4, <2>1
<1>5. CASE e > d + 1 /\ d + 1 \notin Work
  BY <1>1, <1>3, <1>5 DEF Nth
<1>6. CASE e > d + 1 /\ d + 1 \in Work
  <2>1. Cardinality(Until(Work, d + 1, e)) # 0
    <3>1. e \in Until(Work, d + 1, e)
      BY <1>1, <1>6 DEF Until
    <3>2. QED
      BY <1>1, <3>1, UntilCounts, FS_EmptySet
  <2>2. QED
    BY <1>1, <1>2, <1>3, <1>6, <2>1 DEF Nth
<1>7. QED
  BY <1>1, <1>4, <1>5, <1>6

(* The days on which a message may be due. *)
Open(holidays) == {x \in Nat : U!BusinessDay(x, holidays)}

LEMMA OpenEndless == ASSUME NEW holidays \in SUBSET Days PROVE Endless(Open(holidays))
<1>1. PICK m \in Nat : \A x \in Days : x \in Nat /\ x <= m
  BY RulesAssumption
<1>2. ASSUME NEW d \in Nat PROVE \E e \in Open(holidays) : e > d
  <2>1. PICK e \in Nat : e = 7 * (d + m + 1)
    OBVIOUS
  <2>2. e > d /\ e > m /\ e % 7 = 0
    BY <2>1
  <2>3. e \notin holidays
    BY <1>1, <2>2
  <2>4. QED
    BY <2>2, <2>3 DEF Open, U!BusinessDay
<1>3. QED
  BY <1>2 DEF Endless, Open

Walks(f, holidays) ==
    f = [at \in Nat \X Nat |->
           LET morrow == at[1] + 1 IN
           IF at[2] = 0 THEN at[1]
           ELSE f[<<morrow, IF U!Counts(morrow, holidays) THEN at[2] - 1 ELSE at[2]>>]]

LEMMA WalkStep ==
    ASSUME NEW holidays, NEW f, Walks(f, holidays), NEW d \in Nat, NEW r \in Nat
    PROVE  f[<<d, r>>] = IF r = 0 THEN d
                     ELSE f[<<d + 1, IF d + 1 \in Open(holidays) THEN r - 1 ELSE r>>]
<1> DEFINE g(at) == LET morrow == at[1] + 1 IN
                    IF at[2] = 0 THEN at[1]
                    ELSE f[<<morrow, IF U!Counts(morrow, holidays) THEN at[2] - 1 ELSE at[2]>>]
<1>1. f = [at \in Nat \X Nat |-> g(at)]
  BY Zenon DEF Walks
<1> HIDE DEF g
<1>2. f[<<d, r>>] = g(<<d, r>>)
  BY <1>1
<1>3. U!Counts(d + 1, holidays) <=> d + 1 \in Open(holidays)
  BY DEF U!Counts, Open
<1>4. QED
  BY <1>2, <1>3 DEF g

LEMMA WalkExists ==
    ASSUME NEW holidays \in SUBSET Days
    PROVE  \E f : Walks(f, holidays)
<1> DEFINE Work == Open(holidays)
<1> DEFINE day(d, r) == IF r = 0 THEN d ELSE CHOOSE e \in Nat : Nth(Work, d, r, e)
<1> DEFINE f == [at \in Nat \X Nat |-> day(at[1], at[2])]
<1> HIDE DEF day, Work
<1>1. \A d \in Nat, r \in Nat : f[<<d, r>>] = day(d, r)
  OBVIOUS
<1> HIDE DEF f
<1>2. ASSUME NEW d \in Nat, NEW r \in Nat, r > 0 PROVE day(d, r) \in Nat /\ Nth(Work, d, r, day(d, r))
  <2>1. \E e \in Nat : Nth(Work, d, r, e)
    BY <1>2, NthExists, OpenEndless DEF Work
  <2>2. QED
    BY <1>2, <2>1 DEF day
<1>3. ASSUME NEW d \in Nat, NEW r \in Nat
      PROVE  day(d, r) = IF r = 0 THEN d
                        ELSE f[<<d + 1, IF U!Counts(d + 1, holidays) THEN r - 1 ELSE r>>]
  <2>1. U!Counts(d + 1, holidays) <=> d + 1 \in Work
    BY DEF U!Counts, Work, Open
  <2>2. CASE r = 0
    BY <2>2 DEF day
  <2>3. CASE r > 0
    <3>1. PICK e \in Nat : e = day(d, r) /\ Nth(Work, d, r, e)
      BY <1>2, <2>3
    <3>2. CASE d + 1 \in Work /\ r = 1 /\ e = d + 1
      <4>1. f[<<d + 1, 0>>] = d + 1
        BY <1>1 DEF day
      <4>2. QED
        BY <2>1, <3>1, <3>2, <4>1
    <3>3. CASE d + 1 \in Work /\ r > 1 /\ Nth(Work, d + 1, r - 1, e)
      <4>1. d + 1 \in Nat /\ r - 1 \in Nat /\ r - 1 > 0
        BY <3>3
      <4>2. day(d + 1, r - 1) = e
        BY <1>2, <3>3, <4>1, NthUnique
      <4>3. f[<<d + 1, r - 1>>] = day(d + 1, r - 1)
        BY <1>1, <4>1
      <4>4. QED
        BY <2>1, <2>3, <3>1, <3>3, <4>2, <4>3
    <3>4. CASE d + 1 \notin Work /\ Nth(Work, d + 1, r, e)
      <4>1. d + 1 \in Nat
        OBVIOUS
      <4>2. day(d + 1, r) = e
        BY <1>2, <2>3, <3>4, <4>1, NthUnique
      <4>3. f[<<d + 1, r>>] = day(d + 1, r)
        BY <1>1, <4>1
      <4>4. QED
        BY <2>1, <2>3, <3>1, <3>4, <4>2, <4>3
    <3>5. QED
      BY <2>3, <3>1, <3>2, <3>3, <3>4, NthOnward
  <2>4. QED
    BY <2>2, <2>3
<1>4. Walks(f, holidays)
  BY <1>3 DEF f, Walks
<1>5. QED
  BY <1>4

(* By the least wait that goes wrong. *)
LEMMA WalkArrives ==
    ASSUME NEW holidays \in SUBSET Days, NEW f, Walks(f, holidays)
    PROVE  \A d \in Nat, r \in Nat, e \in Nat :
              r > 0 /\ Nth(Open(holidays), d, r, e) => f[<<d, r>>] = e
<1> DEFINE Work == Open(holidays)
<1> DEFINE Ends(n) == \A d \in Nat, r \in Nat, e \in Nat :
                         r > 0 /\ Nth(Work, d, r, e) /\ e = d + n => f[<<d, r>>] = e
<1> HIDE DEF Work
<1>0. \A x \in Nat : f[<<x, 0>>] = x
  BY WalkStep, ZenonT(40)
<1>1. ASSUME NEW n \in Nat, \A k \in Nat : k < n => Ends(k) PROVE Ends(n)
  <2> SUFFICES ASSUME NEW d \in Nat, NEW r \in Nat, NEW e \in Nat, r > 0, Nth(Work, d, r, e), e = d + n
               PROVE  f[<<d, r>>] = e
    OBVIOUS
  <2>1. f[<<d, r>>] = f[<<d + 1, IF d + 1 \in Work THEN r - 1 ELSE r>>]
    BY WalkStep DEF Work
  <2>2. d + 1 \in Nat /\ n - 1 \in Nat /\ n - 1 < n /\ e = (d + 1) + (n - 1)
    BY DEF Nth
  <2>3. Ends(n - 1)
    BY <1>1, <2>2
  <2>4. CASE d + 1 \in Work /\ r = 1 /\ e = d + 1
    <3>1. f[<<d + 1, 0>>] = d + 1
      BY <1>0, <2>2
    <3>2. QED
      BY <2>1, <2>4, <3>1
  <2>5. CASE d + 1 \in Work /\ r > 1 /\ Nth(Work, d + 1, r - 1, e)
    <3>1. r - 1 \in Nat /\ r - 1 > 0
      BY <2>5
    <3>2. f[<<d + 1, r - 1>>] = e
      BY <2>2, <2>3, <2>5, <3>1
    <3>3. QED
      BY <2>1, <2>5, <3>2
  <2>6. CASE d + 1 \notin Work /\ Nth(Work, d + 1, r, e)
    <3>1. f[<<d + 1, r>>] = e
      BY <2>2, <2>3, <2>6
    <3>2. QED
      BY <2>1, <2>6, <3>1
  <2>7. QED
    BY <2>4, <2>5, <2>6, NthOnward
<1> HIDE DEF Ends
<1>2. \A n \in Nat : Ends(n)
  <2>1. SUFFICES ASSUME {n \in Nat : ~Ends(n)} # {} PROVE FALSE
    OBVIOUS
  <2>2. PICK n \in {q \in Nat : ~Ends(q)} : \A q \in {k \in Nat : ~Ends(k)} : n <= q
    BY <2>1, Least
  <2>3. QED
    BY <1>1, <2>2
<1>3. ASSUME NEW d \in Nat, NEW r \in Nat, NEW e \in Nat, r > 0, Nth(Work, d, r, e) PROVE f[<<d, r>>] = e
  <2>1. e - d \in Nat /\ e = d + (e - d)
    BY <1>3 DEF Nth
  <2>2. QED
    BY <1>2, <1>3, <2>1 DEF Ends
<1>4. QED
  BY <1>3 DEF Work

(* addBusinessDays ends on the day it has counted to. *)
LEMMA DueIsNth ==
    ASSUME NEW d \in Nat, NEW r \in Nat, r > 0, NEW holidays \in SUBSET Days
    PROVE  LET end == U!AddBusinessDays(d, r, holidays) IN
           end \in Nat /\ Nth(Open(holidays), d, r, end)
<1>1. PICK f : /\ U!AddBusinessDays(d, r, holidays) = f[<<d, r>>]
               /\ Walks(f, holidays)
  <2> DEFINE walk == CHOOSE f : Walks(f, holidays)
  <2>1. U!AddBusinessDays(d, r, holidays) = walk[<<d, r>>]
    BY Zenon DEF U!AddBusinessDays, Walks
  <2>2. Walks(walk, holidays)
    BY Zenon, WalkExists DEF Walks
  <2>3. QED
    BY <2>1, <2>2
<1>2. PICK e \in Nat : Nth(Open(holidays), d, r, e)
  BY NthExists, OpenEndless
<1>3. QED
  BY <1>1, <1>2, WalkArrives
-----------------------------------------------------------------------------
(* Configurations. *)

(* f[k] is what is kept of the first k elements of l. *)
Kept(f, l, Own, k) ==
    IF k = 0 THEN <<>> ELSE IF l[k] \in Own THEN Append(f[k - 1], l[k]) ELSE f[k - 1]

Keeps(f, l, Own, n) == f = [k \in 0..n |-> Kept(f, l, Own, k)]

LEMMA KeepsStep ==
    ASSUME NEW f, NEW l, NEW Own, NEW n \in Nat, Keeps(f, l, Own, n)
    PROVE  /\ f[0] = <<>>
           /\ \A k \in 1..n : f[k] = IF l[k] \in Own THEN Append(f[k - 1], l[k]) ELSE f[k - 1]
<1>1. \A k \in 0..n : f[k] = Kept(f, l, Own, k)
  BY DEF Keeps
<1>2. \A k \in 1..n : k \in 0..n /\ k # 0
  OBVIOUS
<1>3. QED
  BY <1>1, <1>2 DEF Kept

LEMMA KeepsExists == ASSUME NEW l, NEW Own PROVE \A n \in Nat : \E f : Keeps(f, l, Own, n)
<1> DEFINE Some(n) == \E f : Keeps(f, l, Own, n)
<1>1. Some(0)
  <2>1. Keeps([k \in 0..0 |-> <<>>], l, Own, 0)
    BY DEF Keeps, Kept
  <2>2. QED
    BY <2>1
<1>2. ASSUME NEW n \in Nat, Some(n) PROVE Some(n + 1)
  <2>1. PICK g : Keeps(g, l, Own, n)
    BY <1>2
  <2> DEFINE f == [k \in 0..n + 1 |->
                     IF k <= n THEN g[k]
                     ELSE IF l[k] \in Own THEN Append(g[k - 1], l[k]) ELSE g[k - 1]]
  <2>2. \A k \in 0..n : f[k] = g[k]
    OBVIOUS
  <2>3. ASSUME NEW k \in 0..n + 1
        PROVE  f[k] = Kept(f, l, Own, k)
    <3>1. CASE k <= n
      <4>1. g[k] = Kept(g, l, Own, k)
        BY <2>1, <3>1 DEF Keeps
      <4>2. k # 0 => k - 1 \in 0..n
        BY <3>1
      <4> HIDE DEF f
      <4>3. QED
        BY <2>2, <3>1, <4>1, <4>2 DEF Kept
    <3>2. CASE k = n + 1
      <4>1. f[k] = IF l[k] \in Own THEN Append(g[k - 1], l[k]) ELSE g[k - 1]
        BY <3>2
      <4>2. f[k - 1] = g[k - 1]
        BY <2>2, <3>2
      <4> HIDE DEF f
      <4>3. QED
        BY <3>2, <4>1, <4>2 DEF Kept
    <3>3. QED
      BY <3>1, <3>2
  <2>4. f = [k \in 0..n + 1 |-> f[k]]
    OBVIOUS
  <2> HIDE DEF f
  <2>5. Keeps(f, l, Own, n + 1)
    BY <2>3, <2>4 DEF Keeps
  <2>6. QED
    BY <2>5
<1> HIDE DEF Some
<1>3. \A n \in Nat : Some(n)
  <2>1. SUFFICES ASSUME {n \in Nat : ~Some(n)} # {} PROVE FALSE
    OBVIOUS
  <2>2. PICK n \in {q \in Nat : ~Some(q)} : \A q \in {k \in Nat : ~Some(k)} : n <= q
    BY <2>1, Least
  <2>3. n # 0 /\ n - 1 \in Nat
    BY <1>1, <2>2
  <2>4. Some(n - 1)
    BY <2>2, <2>3
  <2>5. Some((n - 1) + 1)
    BY <1>2, <2>3, <2>4
  <2>6. QED
    BY <2>2, <2>3, <2>5
<1>4. QED
  BY <1>3 DEF Some

(* What is kept is of Own, ... *)
LEMMA KeptAreOf ==
    ASSUME NEW S, NEW l \in Seq(S), NEW Own, NEW f, Keeps(f, l, Own, Len(l))
    PROVE  \A k \in 0..Len(l) : f[k] \in Seq(S \cap Own)
<1> DEFINE Bad == {k \in 0..Len(l) : f[k] \notin Seq(S \cap Own)}
<1>1. Len(l) \in Nat
  OBVIOUS
<1>2. ASSUME Bad # {} PROVE FALSE
  <2>0. Bad \in SUBSET Nat
    BY <1>1
  <2>1. PICK k \in Bad : \A q \in Bad : k <= q
    BY <1>2, <2>0, Least
  <2>2. k # 0
    <3>1. f[0] = <<>> /\ <<>> \in Seq(S \cap Own)
      BY <1>1, KeepsStep
    <3>2. QED
      BY <2>1, <3>1
  <2>3. k \in 1..Len(l) /\ k - 1 \in 0..Len(l)
    BY <2>1, <2>2
  <2>4. f[k - 1] \in Seq(S \cap Own)
    BY <2>1, <2>3
  <2>5. f[k] = IF l[k] \in Own THEN Append(f[k - 1], l[k]) ELSE f[k - 1]
    BY <1>1, <2>3, KeepsStep
  <2>6. l[k] \in S
    BY <2>3
  <2>7. f[k] \in Seq(S \cap Own)
    BY <2>4, <2>5, <2>6
  <2>8. QED
    BY <2>1, <2>7
<1>3. QED
  BY <1>2

EndIs(f, t, c) == f[Len(t \o c)] = c

Filters(f, t, c, Own) == Keeps(f, t \o c, Own, Len(t \o c))

NoneOf(t, S, Own) == t \in Seq(S) /\ \A k \in 1..Len(t) : t[k] \notin Own

(* ... and of a list that ends with elements of Own it is that end. *)
LEMMA KeptIsEnd ==
    ASSUME NEW S, NEW Own, NEW t, NEW c, NEW f,
           NoneOf(t, S, Own), c \in Seq(S \cap Own), Filters(f, t, c, Own)
    PROVE  EndIs(f, t, c)
<1>0. /\ t \in Seq(S) /\ \A k \in 1..Len(t) : t[k] \notin Own
      /\ Keeps(f, t \o c, Own, Len(t \o c))
  BY Zenon DEF NoneOf, Filters
<1> DEFINE l == t \o c
<1> DEFINE Good(k) == IF k <= Len(t) THEN f[k] = <<>> ELSE f[k] = SubSeq(c, 1, k - Len(t))
<1> DEFINE Bad == {k \in 0..Len(l) : ~Good(k)}
<1>1. /\ Len(t) \in Nat /\ Len(c) \in Nat /\ Len(l) = Len(t) + Len(c)
      /\ \A k \in 1..Len(t) : l[k] = t[k]
      /\ \A k \in Len(t) + 1..Len(l) : l[k] = c[k - Len(t)]
  BY <1>0
<1> HIDE DEF l
<1>2. /\ f[0] = <<>>
      /\ \A k \in 1..Len(l) : f[k] = IF l[k] \in Own THEN Append(f[k - 1], l[k]) ELSE f[k - 1]
  <2>1. Len(l) \in Nat
    BY <1>1
  <2>2. Keeps(f, l, Own, Len(l))
    BY <1>0 DEF l
  <2>3. QED
    BY <2>1, <2>2, KeepsStep
<1>3. ASSUME Bad # {} PROVE FALSE
  <2>1. Bad \in SUBSET Nat
    BY <1>1
  <2>2. PICK k \in Bad : \A q \in Bad : k <= q
    BY <1>3, <2>1, Least
  <2>3. k \in 0..Len(l) /\ ~Good(k)
    BY <2>2
  <2>4. k # 0
    BY <1>1, <1>2, <2>3
  <2>5. k \in 1..Len(l) /\ k - 1 \in 0..Len(l) /\ k \in Nat
    BY <1>1, <2>3, <2>4
  <2> HIDE DEF Good
  <2>6. Good(k - 1)
    BY <2>2, <2>5
  <2> USE DEF Good
  <2>7. f[k] = IF l[k] \in Own THEN Append(f[k - 1], l[k]) ELSE f[k - 1]
    BY <1>2, <2>5
  <2>8. CASE k <= Len(t)
    <3>1. l[k] \notin Own /\ k - 1 <= Len(t)
      BY <1>0, <1>1, <2>5, <2>8
    <3>2. QED
      BY <2>3, <2>6, <2>7, <2>8, <3>1
  <2>9. CASE k > Len(t)
    <3>1. PICK j \in 1..Len(c) : j = k - Len(t)
      BY <1>1, <2>5, <2>9
    <3>2. l[k] = c[j] /\ c[j] \in S \cap Own
      BY <1>1, <2>5, <2>9, <3>1
    <3>3. f[k - 1] = SubSeq(c, 1, j - 1)
      <4>1. CASE j = 1
        <5>1. k - 1 <= Len(t)
          BY <1>1, <2>5, <3>1, <4>1
        <5>2. SubSeq(c, 1, j - 1) = <<>>
          BY <4>1
        <5>3. QED
          BY <2>6, <5>1, <5>2
      <4>2. CASE j > 1
        <5>1. ~(k - 1 <= Len(t)) /\ (k - 1) - Len(t) = j - 1
          BY <1>1, <2>5, <3>1, <4>2
        <5>2. QED
          BY <2>6, <5>1
      <4>3. QED
        BY <3>1, <4>1, <4>2
    <3>4. Append(SubSeq(c, 1, j - 1), c[j]) = SubSeq(c, 1, j)
      BY <3>1, SMTT(30)
    <3>5. f[k] = SubSeq(c, 1, j)
      BY <2>7, <3>2, <3>3, <3>4
    <3>6. QED
      BY <1>1, <2>3, <2>5, <2>9, <3>1, <3>5
  <2>10. QED
    BY <1>1, <2>5, <2>8, <2>9
<1>4. Good(Len(l)) /\ Len(l) \in Nat
  BY <1>1, <1>3
<1>5. f[Len(l)] = c
  <2>1. CASE Len(c) = 0
    <3>1. Len(l) <= Len(t) /\ c = <<>>
      BY <1>1, <2>1
    <3>2. QED
      BY <1>4, <3>1
  <2>2. CASE Len(c) > 0
    <3>1. ~(Len(l) <= Len(t)) /\ Len(l) - Len(t) = Len(c)
      BY <1>1, <2>2
    <3>2. f[Len(l)] = SubSeq(c, 1, Len(c))
      BY <1>4, <3>1
    <3>3. SubSeq(c, 1, Len(c)) = c
      OBVIOUS
    <3>4. QED
      BY <3>2, <3>3
  <2>3. QED
    BY <1>1, <2>1, <2>2
<1>6. QED
  BY Zenon, <1>5 DEF l, EndIs

LEMMA Joined ==
    ASSUME NEW S, NEW t \in Seq(S), NEW c \in Seq(S), NEW l, l = t \o c
    PROVE  /\ l \in Seq(S) /\ Len(l) = Len(t) + Len(c) /\ Len(c) \in Nat /\ Len(t) \in Nat
           /\ DOMAIN l = 1..Len(l)
           /\ \A j \in 1..Len(l) : l[j] = IF j <= Len(t) THEN t[j] ELSE c[j - Len(t)]
  OBVIOUS

(* The rules of one's own, and a system rule with its switch. *)
Own == {x \in U!Rule : ~ x.system /\ x.id = "own"}

Switched(id, e) == [id |-> id, system |-> TRUE, enabled |-> e]

SystemIds == <<"sys_a", "sys_b">>

LEMMA EnabledChanged ==
    ASSUME NEW id, NEW system, NEW d, NEW e
    PROVE  [[id |-> id, system |-> system, enabled |-> d] EXCEPT !.enabled = e]
              = [id |-> id, system |-> system, enabled |-> e]
  OBVIOUS

LEMMA SystemRulesAre ==
    /\ DOMAIN U!SystemRules = 1..2
    /\ \A k \in 1..2 : U!SystemRules[k].id = SystemIds[k]
    /\ \A k \in 1..2 : U!SystemRules[k] = Switched(SystemIds[k], TRUE)
    /\ \A k \in 1..2 : \A e : [U!SystemRules[k] EXCEPT !.enabled = e] = Switched(SystemIds[k], e)
    /\ SystemIds[1] # SystemIds[2] /\ \A k \in 1..2 : SystemIds[k] # "own"
<1>1. /\ DOMAIN U!SystemRules = 1..2
      /\ U!SystemRules[1] = Switched("sys_a", TRUE) /\ U!SystemRules[2] = Switched("sys_b", TRUE)
  BY DEF U!SystemRules, Switched
<1>2. ASSUME NEW id, NEW d, NEW e
      PROVE  [Switched(id, d) EXCEPT !.enabled = e] = Switched(id, e) /\ Switched(id, d).id = id
  <2>1. PICK s : s = TRUE
    OBVIOUS
  <2>2. \A x : Switched(id, x) = [id |-> id, system |-> s, enabled |-> x]
    BY Zenon, <2>1 DEF Switched
  <2>3. [Switched(id, d) EXCEPT !.enabled = e] = Switched(id, e)
    BY <2>2, EnabledChanged
  <2>4. Switched(id, d).id = id
    BY <2>2
  <2>5. QED
    BY <2>3, <2>4
<1>3. /\ SystemIds[1] = "sys_a" /\ SystemIds[2] = "sys_b"
      /\ \A k \in 1..2 : k = 1 \/ k = 2
  BY DEF SystemIds
<1>4. \A k \in 1..2 : U!SystemRules[k] = Switched(SystemIds[k], TRUE)
  BY <1>1, <1>3
<1>5. SystemIds[1] # SystemIds[2] /\ \A k \in 1..2 : SystemIds[k] # "own"
  BY <1>3
<1> DEFINE isSwitched(k, e) == [U!SystemRules[k] EXCEPT !.enabled = e] = Switched(SystemIds[k], e)
<1>6. \A k \in 1..2 : \A e : isSwitched(k, e)
  <2>1. PICK d : \A k \in 1..2 : U!SystemRules[k] = Switched(SystemIds[k], d)
    BY <1>4
  <2>2. QED
    BY <1>2, <2>1
<1>7. \A k \in 1..2 : U!SystemRules[k].id = SystemIds[k]
  <2>1. PICK d : \A k \in 1..2 : U!SystemRules[k] = Switched(SystemIds[k], d)
    BY <1>4
  <2>2. QED
    BY <1>2, <2>1
<1>8. QED
  BY <1>1, <1>4, <1>5, <1>6, <1>7

LEMMA SwitchedIsRule ==
    ASSUME NEW k \in 1..2, NEW e \in BOOLEAN
    PROVE  /\ Switched(SystemIds[k], e) \in U!Rule /\ Switched(SystemIds[k], e) \notin Own
           /\ Switched(SystemIds[k], e).id = SystemIds[k] /\ Switched(SystemIds[k], e).enabled = e
<1>1. k = 1 \/ k = 2
  OBVIOUS
<1>2. SystemIds[k] \in {"sys_a", "sys_b"}
  BY <1>1 DEF SystemIds
<1>3. QED
  BY <1>2 DEF Switched, U!Rule, Own

LEMMA CustomKeeps ==
    ASSUME NEW given \in Seq(U!Rule)
    PROVE  \E f : Keeps(f, given, Own, Len(given)) /\ U!Custom(given) = f[Len(given)]
<1> DEFINE n == Len(given)
<1> DEFINE body(f, k) == IF k = 0 THEN <<>>
                         ELSE IF ~ given[k].system /\ given[k].id = "own"
                              THEN Append(f[k - 1], given[k]) ELSE f[k - 1]
<1>1. \A k \in 1..n : given[k] \in Own <=> ~ given[k].system /\ given[k].id = "own"
  BY DEF Own
<1>2. \A f : \A k \in 0..n : body(f, k) = Kept(f, given, Own, k)
  BY <1>1 DEF Kept
<1> DEFINE Mine(f) == f = [k \in 0..n |-> body(f, k)]
<1>3. U!Custom(given) = (CHOOSE f : Mine(f))[n]
  BY Zenon DEF U!Custom
<1> HIDE DEF body
<1>4. \A f : Keeps(f, given, Own, n) <=> Mine(f)
  BY <1>2 DEF Keeps
<1>5. n \in Nat
  OBVIOUS
<1> HIDE DEF n, Mine
<1>6. \E f : Mine(f)
  BY <1>4, <1>5, KeepsExists
<1>7. Mine(CHOOSE f : Mine(f))
  BY Zenon, <1>6
<1>8. QED
  BY <1>3, <1>4, <1>7 DEF n

LEMMA CustomIsOwn ==
    ASSUME NEW given \in Seq(U!Rule)
    PROVE  U!Custom(given) \in Seq(Own)
<1>1. PICK f : Keeps(f, given, Own, Len(given)) /\ U!Custom(given) = f[Len(given)]
  BY CustomKeeps
<1>2. Len(given) \in 0..Len(given)
  OBVIOUS
<1>3. U!Rule \cap Own = Own
  BY DEF Own
<1>4. f[Len(given)] \in Seq(U!Rule \cap Own)
  BY <1>1, <1>2, KeptAreOf
<1>5. QED
  BY <1>1, <1>3, <1>4

(* mergeConfig, as a pair of system rules and a list of others. *)
LEMMA MergeIs ==
    ASSUME NEW given \in Seq(U!Rule)
    PROVE  \E e \in [1..2 -> BOOLEAN] :
              /\ \A k \in 1..2, j \in DOMAIN given :
                    /\ given[j].id = SystemIds[k]
                    /\ \A i \in DOMAIN given : given[i].id = SystemIds[k] => j <= i
                    => e[k] = given[j].enabled
              /\ U!Merge(given) = [k \in 1..2 |-> Switched(SystemIds[k], e[k])] \o U!Custom(given)
<1> DEFINE found(id) == {k \in DOMAIN given : given[k].id = id}
<1> DEFINE first(id) == CHOOSE k \in found(id) : \A j \in found(id) : k <= j
<1> DEFINE system(k) == IF found(U!SystemRules[k].id) = {} THEN U!SystemRules[k]
                        ELSE [U!SystemRules[k] EXCEPT !.enabled = given[first(U!SystemRules[k].id)].enabled]
<1> DEFINE e == [k \in 1..2 |-> IF found(SystemIds[k]) = {} THEN TRUE
                                ELSE given[first(SystemIds[k])].enabled]
<1>1. U!Merge(given) = [k \in DOMAIN U!SystemRules |-> system(k)] \o U!Custom(given)
  BY Zenon DEF U!Merge
<1>2. ASSUME NEW id, found(id) # {}
      PROVE  first(id) \in found(id) /\ \A j \in found(id) : first(id) <= j
  <2>1. found(id) \in SUBSET Nat
    OBVIOUS
  <2>2. \E k \in found(id) : \A j \in found(id) : k <= j
    BY <1>2, <2>1, Least
  <2> HIDE DEF found
  <2>3. QED
    BY <2>2
<1> HIDE DEF first
<1>3. e \in [1..2 -> BOOLEAN]
  <2>1. ASSUME NEW k \in 1..2, found(SystemIds[k]) # {}
        PROVE  given[first(SystemIds[k])].enabled \in BOOLEAN
    <3>1. given[first(SystemIds[k])] \in U!Rule
      BY <1>2, <2>1
    <3>2. QED
      BY <3>1 DEF U!Rule
  <2> HIDE DEF found
  <2>2. QED
    BY <2>1
<1>4. ASSUME NEW k \in 1..2, NEW j \in DOMAIN given, given[j].id = SystemIds[k],
             \A i \in DOMAIN given : given[i].id = SystemIds[k] => j <= i
      PROVE  e[k] = given[j].enabled
  <2>1. j \in found(SystemIds[k])
    BY <1>4
  <2>2. first(SystemIds[k]) = j
    BY <1>2, <1>4, <2>1
  <2> HIDE DEF found
  <2>3. QED
    BY <2>1, <2>2
<1>5. ASSUME NEW k \in 1..2 PROVE system(k) = Switched(SystemIds[k], e[k])
  <2> HIDE DEF found
  <2>1. CASE found(SystemIds[k]) = {}
    BY <2>1, SystemRulesAre
  <2>2. CASE found(SystemIds[k]) # {}
    <3>1. system(k) = [U!SystemRules[k] EXCEPT !.enabled = given[first(SystemIds[k])].enabled]
      BY <2>2, SystemRulesAre
    <3>2. e[k] = given[first(SystemIds[k])].enabled
      BY <2>2
    <3> HIDE DEF e
    <3>3. QED
      BY <3>1, <3>2, SystemRulesAre
  <2>3. QED
    BY <2>1, <2>2
<1> HIDE DEF e, system, found
<1>6. [k \in DOMAIN U!SystemRules |-> system(k)] = [k \in 1..2 |-> Switched(SystemIds[k], e[k])]
  BY <1>5, SystemRulesAre
<1>7. QED
  BY <1>1, <1>3, <1>4, <1>6

IsSettled(m) ==
    /\ U!Merge(m) = m
    /\ \A k \in 1..2 : {j \in DOMAIN m : m[j].id = SystemIds[k]} = {k}
    /\ \A j \in DOMAIN m : m[j].id = "own" \/ \E k \in 1..2 : m[j].id = SystemIds[k]

(* A list that begins with the system rules and goes on with others settles. *)
LEMMA SettledList ==
    ASSUME NEW e \in [1..2 -> BOOLEAN], NEW c \in Seq(Own), NEW t, NEW m,
           t = [k \in 1..2 |-> Switched(SystemIds[k], e[k])], m = t \o c
    PROVE  IsSettled(m)
<1>1. c \in Seq(Own) /\ c \in Seq(U!Rule \cap Own)
  <2>1. U!Rule \cap Own = Own
    BY DEF Own
  <2>2. QED
    BY <2>1
<1>3. \A k \in 1..2 : /\ t[k] \in U!Rule /\ t[k] \notin Own
                      /\ t[k].id = SystemIds[k] /\ t[k].enabled = e[k]
  BY SwitchedIsRule
<1>4. t \in Seq(U!Rule) /\ Len(t) = 2
  BY <1>3
<1>5. m = t \o c
  OBVIOUS
<1>6. \A k \in 1..Len(c) : c[k] \in Own
  BY <1>1
<1>7. /\ m \in Seq(U!Rule) /\ Len(m) = 2 + Len(c) /\ Len(c) \in Nat /\ DOMAIN m = 1..Len(m)
      /\ \A k \in 1..2 : m[k] = t[k]
      /\ \A j \in 3..Len(m) : m[j] \in Own
  <2>1. c \in Seq(U!Rule)
    BY <1>1
  <2>2. m \in Seq(U!Rule) /\ Len(m) = Len(t) + Len(c) /\ Len(c) \in Nat /\ DOMAIN m = 1..Len(m)
    BY <1>4, <1>5, <2>1, Joined
  <2>3. \A j \in 1..Len(m) : m[j] = IF j <= Len(t) THEN t[j] ELSE c[j - Len(t)]
    BY <1>4, <1>5, <2>1, Joined
  <2>4. \A j \in 3..Len(m) : m[j] = c[j - 2] /\ j - 2 \in 1..Len(c)
    BY <1>4, <2>2, <2>3
  <2>5. \A k \in 1..2 : m[k] = t[k]
    BY <1>4, <2>2, <2>3
  <2>6. QED
    BY <1>4, <1>6, <2>2, <2>4, <2>5
<1>8. \A j \in 1..Len(m) : j = 1 \/ j = 2 \/ j \in 3..Len(m)
  BY <1>7
<1>9. \A j \in 3..Len(m) : m[j].id = "own"
  BY <1>7 DEF Own
<1>10. /\ m[1].id = SystemIds[1] /\ m[2].id = SystemIds[2] /\ m[1].enabled = e[1]
       /\ m[2].enabled = e[2] /\ 1 \in DOMAIN m /\ 2 \in DOMAIN m
  BY <1>3, <1>7
<1>11. ASSUME NEW k \in 1..2 PROVE {j \in DOMAIN m : m[j].id = SystemIds[k]} = {k}
  <2>1. ASSUME NEW j \in DOMAIN m PROVE m[j].id = SystemIds[k] <=> j = k
    <3>1. k = 1 \/ k = 2
      OBVIOUS
    <3>2. CASE j \in 3..Len(m)
      <4>1. m[j].id = "own"
        BY <1>9, <3>2
      <4>2. j # k
        BY <3>2
      <4>3. SystemIds[k] # "own"
        BY SystemRulesAre
      <4>4. QED
        BY <4>1, <4>2, <4>3
    <3>3. CASE j = 1
      BY <1>10, <3>1, <3>3, SystemRulesAre
    <3>4. CASE j = 2
      BY <1>10, <3>1, <3>4, SystemRulesAre
    <3>5. QED
      BY <1>7, <1>8, <3>2, <3>3, <3>4
  <2>2. k \in DOMAIN m
    BY <1>10
  <2>3. QED
    BY <2>1, <2>2
<1>12. ASSUME NEW j \in DOMAIN m PROVE m[j].id = "own" \/ \E k \in 1..2 : m[j].id = SystemIds[k]
  <2>1. CASE j \in 3..Len(m)
    BY <1>9, <2>1
  <2>2. CASE j = 1 \/ j = 2
    BY <1>10, <2>2
  <2>3. QED
    BY <1>7, <1>8, <2>1, <2>2
<1>13. U!Merge(m) = m
  <2>1. PICK d \in [1..2 -> BOOLEAN] :
           /\ \A k \in 1..2, j \in DOMAIN m :
                 /\ m[j].id = SystemIds[k]
                 /\ \A i \in DOMAIN m : m[i].id = SystemIds[k] => j <= i
                 => d[k] = m[j].enabled
           /\ U!Merge(m) = [k \in 1..2 |-> Switched(SystemIds[k], d[k])] \o U!Custom(m)
    BY <1>7, MergeIs
  <2>2. ASSUME NEW k \in 1..2 PROVE d[k] = e[k]
    <3>1. m[k].id = SystemIds[k] /\ k \in DOMAIN m /\ m[k].enabled = e[k]
      BY <1>10
    <3>2. ASSUME NEW i \in DOMAIN m, m[i].id = SystemIds[k] PROVE k <= i
      <4>1. i \in {j \in DOMAIN m : m[j].id = SystemIds[k]}
        BY <3>2
      <4>2. i = k
        BY <1>11, <4>1
      <4>3. QED
        BY <4>2
    <3>3. QED
      BY <2>1, <3>1, <3>2
  <2>3. [k \in 1..2 |-> Switched(SystemIds[k], d[k])] = t
    BY <2>2
  <2>4. U!Custom(m) = c
    <3>1. PICK f : Keeps(f, m, Own, Len(m)) /\ U!Custom(m) = f[Len(m)]
      BY <1>7, CustomKeeps
    <3>2. NoneOf(t, U!Rule, Own)
      BY <1>3, <1>4 DEF NoneOf
    <3>3. Filters(f, t, c, Own)
      BY Zenon, <1>5, <3>1 DEF Filters
    <3>4. c \in Seq(U!Rule \cap Own)
      BY <1>1
    <3>5. EndIs(f, t, c)
      BY <3>2, <3>3, <3>4, KeptIsEnd
    <3>6. QED
      BY Zenon, <1>5, <3>1, <3>5 DEF EndIs
  <2>5. QED
    BY <1>5, <2>1, <2>3, <2>4
<1>14. QED
  BY <1>11, <1>12, <1>13 DEF IsSettled

LEMMA MergeSettles == ASSUME NEW given \in Seq(U!Rule) PROVE IsSettled(U!Merge(given))
<1>1. PICK e \in [1..2 -> BOOLEAN] :
         U!Merge(given) = [k \in 1..2 |-> Switched(SystemIds[k], e[k])] \o U!Custom(given)
  BY MergeIs
<1>2. PICK m, t, c : /\ m = U!Merge(given) /\ c = U!Custom(given)
                     /\ t = [k \in 1..2 |-> Switched(SystemIds[k], e[k])]
  OBVIOUS
<1>3. c \in Seq(Own)
  BY <1>2, CustomIsOwn
<1>4. m = t \o c
  BY Zenon, <1>1, <1>2
<1>5. t = [k \in 1..2 |-> Switched(SystemIds[k], e[k])]
  BY <1>2
<1>6. IsSettled(m)
  BY ONLY <1>3, <1>4, <1>5, e \in [1..2 -> BOOLEAN], SettledList
<1>7. QED
  BY <1>2, <1>6
-----------------------------------------------------------------------------
(* What the rules may be asked. *)
RulesAskable ==
    /\ ruleAsked.about = "reply" => ruleAsked.signs \in SUBSET U!Signs
    /\ ruleAsked.about = "health" => ruleAsked \in Figures
    /\ ruleAsked.about = "due" => /\ ruleAsked.from \in Nat /\ ruleAsked.days \in Nat
                                  /\ ruleAsked.holidays \in SUBSET Days
    /\ ruleAsked.about = "clock" =>
          \E d \in Int, c \in Int, b \in -14..14 : \E a \in {b - 1, b + 1} :
             ruleAsked.desired = d /\ ruleAsked.zone = [change |-> c, before |-> b, after |-> a]
    /\ ruleAsked.about = "config" => ruleAsked.rules \in Seq(U!Rule)

LEMMA Askings == RulesAskable /\ [U!Next]_ruleAsked => RulesAskable'
<1> SUFFICES ASSUME RulesAskable, [U!Next]_ruleAsked PROVE RulesAskable'
  BY SMTT(30)
<1>1. CASE UNCHANGED ruleAsked
  BY <1>1 DEF RulesAskable
<1>2. CASE U!AskDue
  <2>1. PICK from \in Days, days \in 0..4, holidays \in SUBSET Days, qa \in BOOLEAN :
           ruleAsked' = [about |-> "due", from |-> from, days |-> days, holidays |-> holidays,
                         qa |-> qa]
    BY <1>2 DEF U!AskDue, U!Ask
  <2>2. from \in Nat /\ days \in Nat
    BY RulesAssumption
  <2>3. QED
    BY <2>1, <2>2 DEF RulesAskable
<1>3. CASE U!AskClock
  <2>1. PICK desired \in ClockHours, change \in ClockHours, before \in Offsets, shift \in {-1, 1} :
           ruleAsked' = [about |-> "clock", desired |-> desired,
                         zone |-> [change |-> change, before |-> before, after |-> before + shift]]
    BY <1>3 DEF U!AskClock, U!Ask
  <2>2. PICK zone : zone = [change |-> change, before |-> before, after |-> before + shift]
    OBVIOUS
  <2>3. /\ desired \in Int /\ change \in Int /\ before \in -14..14
        /\ before + shift \in {before - 1, before + 1}
    BY RulesAssumption
  <2>4. ruleAsked'.about = "clock" /\ ruleAsked'.desired = desired /\ ruleAsked'.zone = zone
    BY <2>1, <2>2
  <2>5. \E d \in Int, c \in Int, b \in -14..14 : \E a \in {b - 1, b + 1} :
           ruleAsked'.desired = d /\ ruleAsked'.zone = [change |-> c, before |-> b, after |-> a]
    BY <2>2, <2>3, <2>4
  <2>6. QED
    BY <2>4, <2>5 DEF RulesAskable
<1>4. CASE U!AskReply
  BY <1>4 DEF RulesAskable, U!AskReply, U!Ask
<1>5. CASE U!AskHealth
  <2>1. PICK much \in Sent, bounces \in Bounces, complaints \in Complaints, dns \in BOOLEAN,
             age \in SenderAges :
           ruleAsked' = [about |-> "health", sent |-> much, bounces |-> bounces,
                         complaints |-> complaints, dns |-> dns, age |-> age]
    BY <1>5 DEF U!AskHealth, U!Ask
  <2>2. ruleAsked' \in Figures
    BY <2>1, RulesAssumption DEF Figures
  <2>3. QED
    BY <2>1, <2>2 DEF RulesAskable
<1>6. CASE U!AskConfig
  <2>1. PICK n \in 0..3 : \E incoming \in [1..n -> U!Rule] :
           ruleAsked' = [about |-> "config", rules |-> incoming]
    BY <1>6 DEF U!AskConfig, U!Ask
  <2>2. PICK incoming \in [1..n -> U!Rule] : ruleAsked' = [about |-> "config", rules |-> incoming]
    BY <2>1
  <2>3. incoming \in Seq(U!Rule)
    OBVIOUS
  <2>4. QED
    BY <2>2, <2>3 DEF RulesAskable
<1>7. QED
  BY <1>1, <1>2, <1>3, <1>4, <1>5, <1>6 DEF U!Next

LEMMA SameDays == \A S : U!Cardinality(S) = Cardinality(S)
  BY Zenon DEF U!Cardinality, Cardinality

LEMMA RulesAnswer ==
    ASSUME RulesAskable PROVE U!DueAfterTheWait /\ U!SameLocalHour /\ U!ConfigSettles
<1>1. U!DueAfterTheWait
  <2> SUFFICES ASSUME ruleAsked.about = "due", ~ ruleAsked.qa, ruleAsked.days > 0
               PROVE  LET end == U!DueDay(ruleAsked) IN
                      /\ U!BusinessDay(end, ruleAsked.holidays)
                      /\ U!Cardinality({d \in ruleAsked.from + 1..end :
                                           U!BusinessDay(d, ruleAsked.holidays)}) = ruleAsked.days
    BY Zenon DEF U!DueAfterTheWait
  <2>1. PICK from \in Nat, days \in Nat, holidays \in SUBSET Days :
           ruleAsked.from = from /\ ruleAsked.days = days /\ ruleAsked.holidays = holidays
    BY DEF RulesAskable
  <2>2. PICK end : end = U!AddBusinessDays(from, days, holidays)
    OBVIOUS
  <2>3. U!DueDay(ruleAsked) = end
    BY <2>1, <2>2 DEF U!DueDay
  <2>4. end \in Nat /\ Nth(Open(holidays), from, days, end)
    BY <2>1, <2>2, DueIsNth
  <2>5. Until(Open(holidays), from, end) = {d \in from + 1..end : U!BusinessDay(d, holidays)}
    BY <2>4 DEF Until, Open
  <2>6. /\ U!BusinessDay(end, holidays)
        /\ U!Cardinality({d \in from + 1..end : U!BusinessDay(d, holidays)}) = days
    BY <2>4, <2>5, SameDays DEF Nth, Open
  <2>7. QED
    BY <2>1, <2>3, <2>6
<1>2. U!SameLocalHour
  <2> SUFFICES ASSUME ruleAsked.about = "clock"
               PROVE  LET q == ruleAsked
                          got == U!Local(U!FromLocal(q.desired, q.zone), q.zone) IN
                      IF \E t \in q.desired - 24..q.desired + 24 : U!Local(t, q.zone) = q.desired
                      THEN got = q.desired ELSE got \in {q.desired - 1, q.desired + 1}
    BY Zenon DEF U!SameLocalHour
  <2>1. PICK d \in Int, c \in Int, b \in -14..14 : \E a \in {b - 1, b + 1} :
           ruleAsked.desired = d /\ ruleAsked.zone = [change |-> c, before |-> b, after |-> a]
    BY DEF RulesAskable
  <2>2. PICK a \in {b - 1, b + 1} :
           ruleAsked.desired = d /\ ruleAsked.zone = [change |-> c, before |-> b, after |-> a]
    BY <2>1
  <2>3. PICK zone : zone = [change |-> c, before |-> b, after |-> a]
    OBVIOUS
  <2>4. IF \E t \in d - 24..d + 24 : U!Local(t, zone) = d
        THEN U!Local(U!FromLocal(d, zone), zone) = d
        ELSE U!Local(U!FromLocal(d, zone), zone) \in {d - 1, d + 1}
    BY <2>3, LocalHour, ZenonT(40)
  <2>5. ruleAsked.desired = d /\ ruleAsked.zone = zone
    BY <2>2, <2>3
  <2>6. QED
    BY <2>4, <2>5
<1>3. U!ConfigSettles
  <2> SUFFICES ASSUME ruleAsked.about = "config"
               PROVE  LET m == U!Merge(ruleAsked.rules) IN
                      /\ U!Merge(m) = m
                      /\ \A k \in DOMAIN U!SystemRules :
                           U!Cardinality({j \in DOMAIN m : m[j].id = U!SystemRules[k].id}) = 1
                      /\ \A j \in DOMAIN m : m[j].id = "own" \/ \E k \in DOMAIN U!SystemRules :
                                                      m[j].id = U!SystemRules[k].id
    BY Zenon DEF U!ConfigSettles
  <2>1. PICK m : m = U!Merge(ruleAsked.rules)
    OBVIOUS
  <2>2. IsSettled(m)
    BY <2>1, MergeSettles DEF RulesAskable
  <2>3. ASSUME NEW k \in DOMAIN U!SystemRules
        PROVE  U!Cardinality({j \in DOMAIN m : m[j].id = U!SystemRules[k].id}) = 1
    <3>1. {j \in DOMAIN m : m[j].id = U!SystemRules[k].id} = {k}
      BY <2>2, <2>3, SystemRulesAre DEF IsSettled
    <3>2. QED
      BY <3>1, SameDays, FS_Singleton
  <2>4. \A j \in DOMAIN m : m[j].id = "own" \/ \E k \in DOMAIN U!SystemRules :
                                                  m[j].id = U!SystemRules[k].id
    BY <2>2, SystemRulesAre DEF IsSettled
  <2>5. U!Merge(m) = m
    BY <2>2 DEF IsSettled
  <2>6. QED
    BY Zenon, <2>1, <2>3, <2>4, <2>5
<1>4. QED
  BY <1>1, <1>2, <1>3

(* Every question asked of the rules is one they can be asked, and they answer it as they
   are meant to. *)
LEMMA RulesDecide ==
    U!Spec => [](/\ U!YesMeansYes /\ U!WorseIsNotBetter
                 /\ U!DueAfterTheWait /\ U!SameLocalHour /\ U!ConfigSettles)
<1>1. U!Init => RulesAskable
  BY DEF U!Init, U!Silence, RulesAskable
<1>2. RulesAskable => U!YesMeansYes /\ U!WorseIsNotBetter
  <2>1. RulesAskable => U!YesMeansYes
    BY OnlyYes DEF U!YesMeansYes, U!Drafted, RulesAskable
  <2>2. RulesAskable => U!WorseIsNotBetter
    BY WorseFigures DEF U!WorseIsNotBetter, RulesAskable
  <2>3. QED
    BY <2>1, <2>2
<1>3. QED
  BY <1>1, <1>2, Askings, RulesAnswer, PTL DEF U!Spec
-----------------------------------------------------------------------------
(* Tests of keys. *)

(* No answer helps a key that is not saved. *)
LEMMA Unsaved ==
    ASSUME NEW provider, NEW saved, NEW says, NEW address, ~saved
    PROVE  Z!Test(provider, saved, says, address) = "provider_credential_missing"
  BY DEF Z!Test

(* What each vendor may answer, and to which key. *)
LEMMA OfTroubled ==
    ASSUME NEW mood \in Z!Moods, NEW says \in Z!Troubled(mood)
    PROVE  mood # "well" /\ says \in {"none", "500", "503", "404"}
  BY DEF Z!Moods, Z!Troubled

LEMMA OfApollo ==
    ASSUME NEW mood \in Z!Moods, NEW key \in {"good", "wrong"},
           NEW says \in Z!ApolloAnswers(key, mood)
    PROVE  \/ says \in Z!Troubled(mood)
           \/ says = "429" /\ mood # "well"
           \/ key = "good" /\ mood = "well" /\ says = "200 signed in"
           \/ key = "wrong" /\ mood = "well"
              /\ says \in {"200 signed out", "200 unreadable", "401", "403"}
<1>1. CASE mood \in {"limited", "quota"}
  BY <1>1 DEF Z!ApolloAnswers
<1>2. CASE mood = "well" /\ key = "good"
  <2>1. Z!ApolloAnswers(key, mood) = Z!Troubled(mood) \cup {"200 signed in"}
    BY <1>2 DEF Z!ApolloAnswers
  <2>2. QED
    BY <1>2, <2>1
<1>5. CASE mood = "well" /\ key = "wrong"
  <2>1. Z!ApolloAnswers(key, mood) =
          Z!Troubled(mood) \cup {"200 signed out", "200 unreadable", "401", "403"}
    BY <1>5 DEF Z!ApolloAnswers
  <2>2. QED
    BY <1>5, <2>1
<1>3. CASE mood \notin {"limited", "quota", "well"}
  BY <1>3 DEF Z!ApolloAnswers
<1>4. QED
  BY <1>1, <1>2, <1>3, <1>5

LEMMA OfHunter ==
    ASSUME NEW mood \in Z!Moods, NEW key \in {"good", "wrong"},
           NEW says \in Z!HunterAnswers(key, mood)
    PROVE  \/ says \in Z!Troubled(mood)
           \/ says = "403" /\ mood # "well"
           \/ key = "good" /\ says = "429" /\ mood # "well"
           \/ key = "good" /\ says \in {"400", "422"}
           \/ says = "401" /\ key = "wrong"
<1>1. CASE mood = "limited"
  BY <1>1 DEF Z!HunterAnswers
<1>2. CASE mood = "quota"
  <2>1. CASE key = "good"
    <3>1. Z!HunterAnswers(key, mood) = Z!Troubled(mood) \cup {"429"}
      BY <1>2, <2>1 DEF Z!HunterAnswers
    <3>2. QED
      BY <1>2, <2>1, <3>1
  <2>2. CASE key = "wrong"
    <3>1. Z!HunterAnswers(key, mood) = Z!Troubled(mood) \cup {"401"}
      BY <1>2, <2>2 DEF Z!HunterAnswers
    <3>2. QED
      BY <1>2, <2>2, <3>1
  <2>3. QED
    BY <2>1, <2>2
<1>3. CASE mood = "well"
  <2>1. CASE key = "good"
    <3>1. Z!HunterAnswers(key, mood) = Z!Troubled(mood) \cup {"400", "422"}
      BY <1>3, <2>1 DEF Z!HunterAnswers
    <3>2. QED
      BY <1>3, <2>1, <3>1
  <2>2. CASE key = "wrong"
    <3>1. Z!HunterAnswers(key, mood) = Z!Troubled(mood) \cup {"401"}
      BY <1>3, <2>2 DEF Z!HunterAnswers
    <3>2. QED
      BY <1>3, <2>2, <3>1
  <2>3. QED
    BY <2>1, <2>2
<1>4. CASE mood \notin {"limited", "quota", "well"}
  BY <1>4 DEF Z!HunterAnswers
<1>5. QED
  BY <1>1, <1>2, <1>3, <1>4

(* Whatever is answered to a test, it passes only a good key. *)
LEMMA KeysTested == Z!Spec => []Z!NoFalsePass
<1> DEFINE Truthful ==
      \/ probeAsked = None \/ probeAsked.about = "flags"
      \/ /\ probeAsked.code = "ok" => probeAsked.saved /\ probeAsked.key = "good"
         /\ probeAsked.code = "vendor_quota_exhausted" => probeAsked.key = "good"
         /\ probeAsked.saved /\ probeAsked.key = "good" /\ probeAsked.mood = "well"
              => probeAsked.code = "ok" \/ probeAsked.about = "gateway"
<1>1. Z!Init => Truthful
  BY DEF Z!Init
<1>2. Truthful /\ [Z!Next]_(Z!vars) => Truthful'
  <2> SUFFICES ASSUME Truthful, [Z!Next]_(Z!vars) PROVE Truthful'
    OBVIOUS
  <2>1. CASE UNCHANGED Z!vars
    BY <2>1 DEF Z!vars
  <2>2. CASE Z!AskFlags
    BY <2>2 DEF Z!AskFlags
  <2>3. CASE Z!AskTest
    <3>0. PICK provider \in {"apollo", "hunter", "gateway"}, key \in {"good", "wrong"},
               mood \in Z!Moods, saved \in BOOLEAN, address \in BOOLEAN :
             \E says \in Z!Answers(provider, key, mood) :
               probeAsked' = [about |-> provider, key |-> key, mood |-> mood, saved |-> saved,
                              code |-> Z!Test(provider, saved, says, address)]
      BY <2>3 DEF Z!AskTest
    <3>1. PICK says \in Z!Answers(provider, key, mood) :
             probeAsked' = [about |-> provider, key |-> key, mood |-> mood, saved |-> saved,
                            code |-> Z!Test(provider, saved, says, address)]
      BY <3>0
    <3>2. PICK code : code = Z!Test(provider, saved, says, address)
      OBVIOUS
    <3>3. CASE ~saved
      <4>1. code = "provider_credential_missing"
        BY <3>2, <3>3, Unsaved
      <4>2. QED
        BY <3>1, <3>2, <3>3, <4>1
    <3>4. CASE saved /\ provider = "apollo"
      <4>1. code = Z!ProbeApollo(says)
        BY <3>2, <3>4 DEF Z!Test
      <4>2. says \in Z!ApolloAnswers(key, mood)
        BY <3>4 DEF Z!Answers
      <4>3. /\ code = "ok" => key = "good"
            /\ code # "vendor_quota_exhausted"
            /\ key = "good" /\ mood = "well" => code = "ok"
        BY <4>1, <4>2, OfApollo, OfTroubled DEF Z!ProbeApollo
      <4>4. QED
        BY <3>1, <3>2, <3>4, <4>3
    <3>5. CASE saved /\ provider = "hunter"
      <4>1. code = Z!ProbeHunter(says)
        BY <3>2, <3>5 DEF Z!Test
      <4>2. says \in Z!HunterAnswers(key, mood)
        BY <3>5 DEF Z!Answers
      <4>3. /\ code = "ok" => key = "good"
            /\ code = "vendor_quota_exhausted" => key = "good"
            /\ key = "good" /\ mood = "well" => code = "ok"
        BY <4>1, <4>2, OfHunter, OfTroubled DEF Z!ProbeHunter
      <4>4. QED
        BY <3>1, <3>2, <3>5, <4>3
    <3>6. CASE saved /\ provider = "gateway"
      <4>1. code = Z!ProbeGateway(says, address)
        BY <3>2, <3>6 DEF Z!Test
      <4>2. says \in Z!GatewayAnswers(key, mood)
        BY <3>6 DEF Z!Answers
      <4>3. /\ code = "ok" => key = "good"
            /\ code # "vendor_quota_exhausted"
        BY <4>1, <4>2 DEF Z!ProbeGateway, Z!GatewayAnswers, Z!Troubled, Z!Moods
      <4>4. QED
        BY <3>1, <3>2, <3>6, <4>3
    <3>7. QED
      BY <3>3, <3>4, <3>5, <3>6
  <2>4. QED
    BY <2>1, <2>2, <2>3 DEF Z!Next
<1>3. Truthful => Z!NoFalsePass
  BY DEF Z!NoFalsePass, Z!Tested
<1>4. QED
  BY <1>1, <1>2, <1>3, PTL DEF Z!Spec
-----------------------------------------------------------------------------
(* Gates. *)

(* The checks before a send, in their order. *)
LEMMA ChecksAre ==
    /\ DOMAIN F!Checks = 1..11
    /\ F!Checks[1] = "stale" /\ F!Checks[2] = "unapproved" /\ F!Checks[3] = "hours"
    /\ F!Checks[4] = "mailbox" /\ F!Checks[5] = "inactive" /\ F!Checks[6] = "pausedMode"
    /\ F!Checks[7] = "automation" /\ F!Checks[8] = "suspended" /\ F!Checks[9] = "gatewayKey"
    /\ F!Checks[10] = "postal" /\ F!Checks[11] = "sender"
  BY DEF F!Checks

(* The reason a message waits for is one that holds, and there is none when none does. *)
LEMMA Reasons ==
    ASSUME NEW wrong, NEW m
    PROVE  \/ /\ F!WaitReason(wrong, m) = None
              /\ \A k \in 1..11 : ~ F!Fails(F!Checks[k], wrong, m)
           \/ \E k \in 1..11 : /\ F!Fails(F!Checks[k], wrong, m)
                               /\ F!WaitReason(wrong, m) = F!Checks[k]
<1> DEFINE failing == {k \in DOMAIN F!Checks : F!Fails(F!Checks[k], wrong, m)}
           first   == F!Min(failing)
<1>1. F!WaitReason(wrong, m) = IF failing = {} THEN None ELSE F!Checks[first]
  BY Zenon DEF F!WaitReason
<1>2. CASE failing = {}
  BY <1>1, <1>2, ChecksAre
<1>3. CASE failing # {}
  <2>1. failing \in SUBSET Nat
    BY ChecksAre
  <2>2. \E x \in failing : \A y \in failing : x <= y
    BY <1>3, <2>1, Least
  <2>3. first \in failing
    BY <2>2 DEF F!Min
  <2> HIDE DEF first
  <2>4. QED
    BY <1>1, <1>3, <2>3, ChecksAre
<1>4. QED
  BY <1>2, <1>3

(* Of a campaign that the readiness check found ready, only these can still fail. *)
LEMMA ReadyFails ==
    ASSUME NEW wrong, NEW m, NEW allow, F!CampaignReady(wrong, m, allow), NEW k \in 1..11,
           F!Fails(F!Checks[k], wrong, m)
    PROVE  \/ F!Checks[k] \in wrong /\ F!Checks[k] \in {"stale", "unapproved", "hours", "inactive",
                                                       "pausedMode", "suspended"}
           \/ F!Checks[k] = "sender" /\ ~ F!SenderHealthy(wrong)
<1> DEFINE named == {"icp", "sequence", "automation", "gatewayKey", "webhookSecret", "postal",
                     "outbound"}
<1>1. F!Missing(wrong, m) = {}
  BY DEF F!CampaignReady
<1>2. wrong \cap named = {}
  BY <1>1, Zenon DEF F!Missing
<1>3. m = None \/ (m.enabled /\ m.listed /\ ~ m.error /\ m.success = "recent")
  BY <1>1, Zenon DEF F!Missing
<1>4. ~ F!MailboxBlocked(m)
  BY <1>3, Zenon DEF F!MailboxBlocked
<1>5. F!Checks[k] # "mailbox"
  BY <1>4 DEF F!Fails
<1>6. CASE F!Checks[k] = "sender"
  BY <1>6 DEF F!Fails
<1>7. CASE F!Checks[k] # "sender"
  <2>1. F!Checks[k] \in wrong
    BY <1>5, <1>7 DEF F!Fails
  <2>2. QED
    BY <1>2, <1>5, <1>7, <2>1, ChecksAre
<1>8. QED
  BY <1>6, <1>7

(* What an answer about a campaign says. *)
GateAnswer(q) ==
    \E wrong, m : q = [wrong |-> wrong, mailbox |-> m, activation |-> F!Activation(wrong, m),
                      wakes |-> F!Wakes(wrong, m), accepted |-> F!RunAccepted(wrong, m),
                      reason |-> F!WaitReason(wrong, m), sendable |-> F!Sendable(wrong, m)]

(* What was started waits only for what the activation could not see, or warned of. *)
LEMMA StartedSends ==
    ASSUME NEW wrong, NEW m, F!Activation(wrong, m) # "refused",
           wrong \cap {"unapproved", "stale", "hours", "suspended", "pausedMode"} = {}
    PROVE  /\ F!Sendable(wrong, m) <=> /\ "inactive" \notin wrong
                                       /\ F!Activation(wrong, m) = "started"
           /\ F!WaitReason(wrong, m) \in {None, "inactive", "sender"}
<1>1. F!CampaignReady(wrong, m, TRUE)
  BY DEF F!Activation
<1>2. F!Activation(wrong, m) = "started" <=> F!SenderHealthy(wrong)
  BY <1>1 DEF F!Activation
<1>3. "outbound" \notin wrong
  <2>1. F!Missing(wrong, m) = {}
    BY <1>1 DEF F!CampaignReady
  <2>2. QED
    BY <2>1, Zenon DEF F!Missing
<1>4. \A k \in 1..11 : F!Fails(F!Checks[k], wrong, m) =>
        \/ F!Checks[k] = "inactive" /\ "inactive" \in wrong
        \/ F!Checks[k] = "sender" /\ ~ F!SenderHealthy(wrong)
  <2> SUFFICES ASSUME NEW k \in 1..11, F!Fails(F!Checks[k], wrong, m)
               PROVE  \/ F!Checks[k] = "inactive" /\ "inactive" \in wrong
                      \/ F!Checks[k] = "sender" /\ ~ F!SenderHealthy(wrong)
    OBVIOUS
  <2>1. \/ F!Checks[k] \in wrong /\ F!Checks[k] \in {"stale", "unapproved", "hours", "inactive",
                                                    "pausedMode", "suspended"}
        \/ F!Checks[k] = "sender" /\ ~ F!SenderHealthy(wrong)
    BY <1>1, ReadyFails
  <2>2. QED
    BY <2>1
<1>5. /\ "inactive" \in wrong => F!Fails(F!Checks[5], wrong, m)
      /\ ~ F!SenderHealthy(wrong) => F!Fails(F!Checks[11], wrong, m)
  BY ChecksAre DEF F!Fails
<1>6. None \notin {"inactive", "sender"}
  <2>1. F!Checks[5] # None /\ F!Checks[11] # None
    BY GatesAssumption, ChecksAre
  <2>2. QED
    BY <2>1, ChecksAre
<1>7. CASE \A k \in 1..11 : ~ F!Fails(F!Checks[k], wrong, m)
  <2>1. F!WaitReason(wrong, m) = None
    BY <1>7, Reasons
  <2>2. "inactive" \notin wrong /\ F!SenderHealthy(wrong)
    BY <1>5, <1>7
  <2>3. QED
    BY <1>2, <1>3, <2>1, <2>2, Zenon DEF F!Sendable
<1>8. CASE ~ \A k \in 1..11 : ~ F!Fails(F!Checks[k], wrong, m)
  <2>1. PICK k \in 1..11 : F!Fails(F!Checks[k], wrong, m) /\ F!WaitReason(wrong, m) = F!Checks[k]
    BY <1>8, Reasons
  <2>2. \/ F!WaitReason(wrong, m) = "inactive" /\ "inactive" \in wrong
        \/ F!WaitReason(wrong, m) = "sender" /\ ~ F!SenderHealthy(wrong)
    BY <1>4, <2>1
  <2>3. F!WaitReason(wrong, m) # None
    BY <1>6, <2>2
  <2>4. QED
    BY <1>2, <2>2, <2>3, Zenon DEF F!Sendable
<1>9. QED
  BY <1>7, <1>8

(* A run that is accepted is taken up, and its prospects can be written to. *)
LEMMA AcceptedRuns ==
    ASSUME NEW wrong, NEW m, F!RunAccepted(wrong, m), "suspended" \notin wrong
    PROVE  /\ F!RunTaken(wrong)
           /\ wrong \cap {"unapproved", "stale", "hours"} = {} => F!Sendable(wrong, m)
<1>1. F!CampaignReady(wrong, m, FALSE) /\ wrong \cap {"inactive", "pausedMode"} = {}
  BY Zenon DEF F!RunAccepted
<1>2. F!SenderHealthy(wrong)
  BY <1>1, Zenon DEF F!CampaignReady
<1>3. wrong \cap {"icp", "sequence", "automation", "gatewayKey", "webhookSecret", "postal",
                  "outbound"} = {}
  <2>1. F!Missing(wrong, m) = {}
    BY <1>1, Zenon DEF F!CampaignReady
  <2>2. QED
    BY <2>1, Zenon DEF F!Missing
<1>4. F!RunTaken(wrong)
  BY <1>1, <1>3 DEF F!RunTaken
<1>5. ASSUME wrong \cap {"unapproved", "stale", "hours"} = {} PROVE F!Sendable(wrong, m)
  <2>1. ASSUME NEW k \in 1..11, F!Fails(F!Checks[k], wrong, m) PROVE FALSE
    <3>1. \/ F!Checks[k] \in wrong /\ F!Checks[k] \in {"stale", "unapproved", "hours", "inactive",
                                                      "pausedMode", "suspended"}
          \/ F!Checks[k] = "sender" /\ ~ F!SenderHealthy(wrong)
      BY <1>1, <2>1, ReadyFails
    <3>2. QED
      BY <1>1, <1>2, <1>5, <3>1
  <2>2. F!WaitReason(wrong, m) = None
    BY <2>1, Reasons
  <2>3. "outbound" \notin wrong
    BY <1>3
  <2>4. QED
    BY <2>2, <2>3, Zenon DEF F!Sendable
<1>6. QED
  BY <1>4, <1>5

(* The three lists of checks agree, whatever is out of order. *)
LEMMA GatesAgree == F!Spec => [](F!StartedCanSend /\ F!AcceptedRunRuns)
<1> DEFINE Answered == gateAsked = None \/ GateAnswer(gateAsked)
<1>1. F!Init => Answered
  BY DEF F!Init
<1>2. Answered /\ [F!Next]_gateAsked => Answered'
  BY Zenon DEF GateAnswer, F!Next, F!AskCampaign
<1>3. Answered => F!StartedCanSend /\ F!AcceptedRunRuns
  <2> SUFFICES ASSUME GateAnswer(gateAsked) PROVE F!StartedCanSend /\ F!AcceptedRunRuns
    BY DEF F!StartedCanSend, F!AcceptedRunRuns, F!Asked
  <2>1. PICK wrong, m : /\ gateAsked.wrong = wrong
                        /\ gateAsked.activation = F!Activation(wrong, m)
                        /\ gateAsked.accepted = F!RunAccepted(wrong, m)
                        /\ gateAsked.reason = F!WaitReason(wrong, m)
                        /\ gateAsked.sendable = F!Sendable(wrong, m)
    BY DEF GateAnswer
  <2>2. F!StartedCanSend
    <3> SUFFICES ASSUME gateAsked.activation # "refused",
                        wrong \cap {"unapproved", "stale", "hours", "suspended", "pausedMode"} = {}
                 PROVE  /\ gateAsked.sendable = ("inactive" \notin wrong
                                                 /\ gateAsked.activation = "started")
                        /\ gateAsked.reason \in {None, "inactive", "sender"}
      BY <2>1, Zenon DEF F!StartedCanSend
    <3>1. /\ F!Sendable(wrong, m) <=> "inactive" \notin wrong /\ F!Activation(wrong, m) = "started"
          /\ F!WaitReason(wrong, m) \in {None, "inactive", "sender"}
      BY <2>1, StartedSends
    <3>2. F!Sendable(wrong, m) = ("inactive" \notin wrong /\ F!Activation(wrong, m) = "started")
      BY <3>1, Zenon DEF F!Sendable
    <3>3. QED
      BY <2>1, <3>1, <3>2, Zenon
  <2>3. F!AcceptedRunRuns
    BY <2>1, AcceptedRuns, Zenon DEF F!AcceptedRunRuns
  <2>4. QED
    BY <2>2, <2>3
<1>4. QED
  BY <1>1, <1>2, <1>3, PTL DEF F!Spec
-----------------------------------------------------------------------------
(* Prospects. *)

(* The first good member of a list is a member that is good. *)
LEMMA FirstIs ==
    ASSUME NEW S, NEW list \in Seq(S), NEW good, NEW other
    PROVE  \/ V!First(list, good, other) = other
           \/ \E i \in 1..Len(list) : list[i] \in good /\ V!First(list, good, other) = list[i]
<1> DEFINE hits == {n \in 1..Len(list) : list[n] \in good}
<1>1. CASE hits = {}
  BY <1>1 DEF V!First
<1>2. CASE hits # {}
  <2>0. hits \in SUBSET Nat
    OBVIOUS
  <2>1. \E x \in hits : \A y \in hits : x <= y
    BY <1>2, <2>0, Least
  <2>2. PICK k : k = CHOOSE n \in hits : \A m \in hits : n <= m
    OBVIOUS
  <2>3. k \in hits
    BY <2>1, <2>2
  <2>4. V!First(list, good, other) = list[k]
    BY <1>2, <2>2 DEF V!First
  <2>5. QED
    BY <2>3, <2>4
<1>3. QED
  BY <1>1, <1>2

(* What the gateway may make of a vendor's word, by a list of the profile's. *)
Translation(x, word, list) ==
    \/ x = word
    \/ \E i \in 1..Len(list) : /\ x = list[i]
                                /\ x \in V!Spelled(word) \cup V!Mapped(word) \cup V!Grouped(word)

(* Every translation is one, by the spelling, the operator's file or the groups. *)
LEMMA Translations ==
    ASSUME NEW word \in Word, NEW list \in Seq(Word)
    PROVE  /\ Translation(V!TitleFor(word, list), word, list)
           /\ Translation(V!IndustryFor(word, list), word, list)
           /\ Translation(V!GeographyFor(word, list), word, list)
<1>1. ASSUME NEW good, good \subseteq V!Spelled(word) \cup V!Mapped(word) \cup V!Grouped(word),
             NEW x, Translation(x, word, list)
      PROVE  Translation(V!First(list, good, x), word, list)
  <2>1. \/ V!First(list, good, x) = x
        \/ \E i \in 1..Len(list) : list[i] \in good /\ V!First(list, good, x) = list[i]
    BY FirstIs
  <2>2. QED
    BY <1>1, <2>1 DEF Translation
<1>2. Translation(word, word, list)
  BY DEF Translation
<1>3. QED
  BY <1>1, <1>2 DEF V!TitleFor, V!IndustryFor, V!GeographyFor

(* A translation that the profile has means what the vendor's word means. *)
LEMMA SameMeaning ==
    ASSUME NEW word \in Word, NEW list \in Seq(Word), NEW x, Translation(x, word, list),
           V!Has(list, x)
    PROVE  V!MeansOne(word, list)
<1>1. \A i \in 1..Len(list) : list[i] \in Word
  OBVIOUS
<1>2. \A y, z \in Word :
        \/ Key[y] = Key[z] \/ (Group[Key[y]] = Group[Key[z]] /\ Group[Key[y]] # None)
        \/ Taxonomy[Key[y]] = Key[z]
        => Means[y] = Means[z]
  BY TablesAssumption DEF V!TablesAgree
<1>3. CASE x = word
  BY <1>1, <1>2, <1>3 DEF V!Has, V!KeyOf, V!MeansOne
<1>4. ASSUME NEW i \in 1..Len(list),
             x = list[i], x \in V!Spelled(word) \cup V!Mapped(word) \cup V!Grouped(word)
      PROVE  V!MeansOne(word, list)
  BY <1>1, <1>2, <1>4 DEF V!Spelled, V!Mapped, V!Grouped, V!MeansOne
<1>5. QED
  BY <1>3, <1>4 DEF Translation

(* A size that the profile has is one the head count is in. *)
LEMMA SizeFits ==
    ASSUME NEW n \in Heads \cup {10}, NEW list \in Seq(DOMAIN Band),
           V!Has(list, V!SizeBandFor(n, list))
    PROVE  \E i \in 1..Len(list) : list[i] \in V!Within(n) \cup {V!ToString(n)}
<1>1. \/ V!SizeBandFor(n, list) = V!ToString(n)
      \/ \E i \in 1..Len(list) : list[i] \in V!Within(n) /\ V!SizeBandFor(n, list) = list[i]
  BY FirstIs DEF V!SizeBandFor
<1>2. \A i \in 1..Len(list) : list[i] \notin Word
  BY RulesAssumption
<1>3. V!ToString(n) \notin Word
  BY TablesAssumption
<1>4. QED
  BY <1>1, <1>2, <1>3 DEF V!Has, V!KeyOf

(* A person and a profile of which something may be asked. *)
Askable(p, icp) ==
    /\ p.title \in Word /\ p.industry \in Word /\ p.country \in Word
    /\ p.employees \in Heads \cup {10}
    /\ \A l \in {icp.titles, icp.industries, icp.geographies} : l \in Seq(Word) /\ l # <<>>
    /\ icp.sizes \in Seq(DOMAIN Band) /\ icp.sizes # <<>>
    /\ p.mailbox.http \in {"200", "202", "451"}
    /\ icp.minScore \in 0..100

(* Who is found and qualifies is wanted. *)
LEMMA Relabelled ==
    ASSUME NEW p, NEW icp, Askable(p, icp), NEW wait,
           V!Found(p, icp) # None, V!Qualifies(V!Found(p, icp), icp, wait)
    PROVE  V!Wanted(p, icp)
<1> DEFINE found == [title |-> V!TitleFor(p.title, icp.titles),
          industry |-> V!IndustryFor(p.industry, icp.industries),
          size |-> V!SizeBandFor(p.employees, icp.sizes),
          geography |-> V!GeographyFor(p.country, icp.geographies),
          technologies |-> p.technologies \cap icp.technologies,
          signals |-> {icp.signal}, names |-> p.names, age |-> 0]
<1>0. V!Found(p, icp) = found /\ V!Verdict(p.mailbox) = "VALID"
  BY DEF V!Found
<1>1. PICK f : /\ f = V!Found(p, icp)
               /\ f.title = V!TitleFor(p.title, icp.titles)
               /\ f.industry = V!IndustryFor(p.industry, icp.industries)
               /\ f.size = V!SizeBandFor(p.employees, icp.sizes)
               /\ f.geography = V!GeographyFor(p.country, icp.geographies)
               /\ f.names = p.names
  BY <1>0
<1>2. /\ V!Has(icp.titles, V!TitleFor(p.title, icp.titles))
      /\ V!Has(icp.industries, V!IndustryFor(p.industry, icp.industries))
      /\ V!Has(icp.sizes, V!SizeBandFor(p.employees, icp.sizes))
      /\ V!Has(icp.geographies, V!GeographyFor(p.country, icp.geographies))
      /\ p.names \cap icp.exclusions = {}
  BY <1>1, Zenon DEF V!Qualifies, V!Fits
<1>3. /\ V!MeansOne(p.title, icp.titles) /\ V!MeansOne(p.industry, icp.industries)
      /\ V!MeansOne(p.country, icp.geographies)
  BY <1>2, Translations, SameMeaning DEF Askable
<1>4. \E i \in 1..Len(icp.sizes) :
        icp.sizes[i] \in V!Within(p.employees) \cup {V!ToString(p.employees)}
  BY <1>2, SizeFits DEF Askable
<1>5. \/ p.mailbox.hunter /\ p.mailbox.http = "200" /\ p.mailbox.status = "valid"
          /\ p.mailbox.result \notin {"risky", "undeliverable"}
      \/ ~p.mailbox.hunter /\ p.mailbox.apollo = "verified"
  BY <1>0 DEF V!Verdict, V!HunterVerdict, Askable
<1>6. QED
  BY <1>2, <1>3, <1>4, <1>5 DEF V!Wanted

LEMMA HasFirst ==
    ASSUME NEW S, NEW list \in Seq(S), list # <<>> PROVE V!Has(list, list[1])
<1>1. 1 \in 1..Len(list)
  OBVIOUS
<1>2. QED
  BY <1>1 DEF V!Has

(* A dummy has the first word of everything the profile asks for. *)
LEMMA DummyFits ==
    ASSUME NEW p, NEW icp, Askable(p, icp), NEW wait \in Int, V!Dummy(p, icp) # None,
           V!Dummy(p, icp).names \cap icp.exclusions = {}, V!FreshAge(wait),
           icp.minScore > 90 => icp.technologies # {}
    PROVE  V!Qualifies(V!Dummy(p, icp), icp, wait)
<1>0. V!Dummy(p, icp) =
        [title |-> icp.titles[1], industry |-> icp.industries[1], size |-> icp.sizes[1],
         geography |-> icp.geographies[1], technologies |-> icp.technologies,
         signals |-> {icp.signal}, names |-> p.names, age |-> 0]
  BY DEF V!Dummy
<1>1. PICK d : /\ d = V!Dummy(p, icp)
               /\ d.title = icp.titles[1] /\ d.industry = icp.industries[1]
               /\ d.size = icp.sizes[1] /\ d.geography = icp.geographies[1]
               /\ d.technologies = icp.technologies /\ d.signals = {icp.signal}
               /\ d.names = p.names /\ d.age = 0
  BY <1>0
<1>2. /\ V!Has(icp.titles, d.title) /\ V!Has(icp.industries, d.industry)
      /\ V!Has(icp.sizes, d.size) /\ V!Has(icp.geographies, d.geography)
  BY <1>1, HasFirst DEF Askable
<1>3. V!FreshAge(d.age + wait)
  BY <1>1
<1>4. V!Score(d, icp) >= icp.minScore
  <2>1. icp.minScore \in 0..100
    BY DEF Askable
  <2>2. CASE icp.technologies = {}
    <3>1. V!Score(d, icp) = 90 /\ ~ (icp.minScore > 90)
      BY <1>1, <2>2 DEF V!Score
    <3>2. QED
      BY <2>1, <3>1
  <2>3. CASE icp.technologies # {}
    <3>1. d.technologies \cap icp.technologies # {}
      BY <1>1, <2>3
    <3>2. V!Score(d, icp) = 100
      BY <3>1 DEF V!Score
    <3>3. QED
      BY <2>1, <3>2
  <2>4. QED
    BY <2>2, <2>3
<1>5. QED
  BY <1>1, <1>2, <1>3, <1>4 DEF V!Qualifies, V!Fits

LEMMA ListsAreLists == ASSUME NEW S, NEW l \in V!Lists(S) PROVE l \in Seq(S) /\ l # <<>>
<1>1. CASE \E x \in S : l = <<x>>
  BY <1>1
<1>2. CASE \E x, y \in S : l = <<x, y>>
  BY <1>2
<1>3. QED
  BY <1>1, <1>2 DEF V!Lists

(* Everything that AskProspect asks about is a person and a profile. *)
LEMMA AllAskable ==
    ASSUME NEW w \in Word
    PROVE  /\ \A x \in Word, l \in V!Lists(Word) :
                /\ Askable([V!Person(w) EXCEPT !.title = x], [V!Profile(w) EXCEPT !.titles = l])
                /\ Askable([V!Person(w) EXCEPT !.industry = x], [V!Profile(w) EXCEPT !.industries = l])
                /\ Askable([V!Person(w) EXCEPT !.country = x], [V!Profile(w) EXCEPT !.geographies = l])
           /\ \A n \in Heads, l \in V!Lists(DOMAIN Band) :
                Askable([V!Person(w) EXCEPT !.employees = n], [V!Profile(w) EXCEPT !.sizes = l])
           /\ \A m \in V!Mailboxes : Askable([V!Person(w) EXCEPT !.mailbox = m], V!Profile(w))
           /\ \A t, s, e : \A n \in MinScores :
                Askable([V!Person(w) EXCEPT !.technologies = t],
                        [V!Profile(w) EXCEPT !.technologies = s, !.minScore = n, !.exclusions = e])
<1> DEFINE person == V!Person(w)
           icp    == V!Profile(w)
<1>1. \A l \in V!Lists(Word) : l \in Seq(Word) /\ l # <<>>
  BY ListsAreLists
<1>2. \A l \in V!Lists(DOMAIN Band) : l \in Seq(DOMAIN Band) /\ l # <<>>
  BY ListsAreLists
<1>3. \A m \in V!Mailboxes : m.http \in {"200", "202", "451"}
  BY DEF V!Mailboxes
<1>4. Askable(person, icp)
  BY RulesAssumption DEF Askable, V!Person, V!Profile
<1>5. ASSUME NEW x \in Word, NEW l \in V!Lists(Word)
      PROVE  /\ Askable([person EXCEPT !.title = x], [icp EXCEPT !.titles = l])
             /\ Askable([person EXCEPT !.industry = x], [icp EXCEPT !.industries = l])
             /\ Askable([person EXCEPT !.country = x], [icp EXCEPT !.geographies = l])
  BY <1>1, <1>4 DEF Askable, V!Person, V!Profile
<1>6. ASSUME NEW n \in Heads, NEW l \in V!Lists(DOMAIN Band)
      PROVE  Askable([person EXCEPT !.employees = n], [icp EXCEPT !.sizes = l])
  BY <1>2, <1>4 DEF Askable, V!Person, V!Profile
<1>7. ASSUME NEW m \in V!Mailboxes PROVE Askable([person EXCEPT !.mailbox = m], icp)
  BY <1>3, <1>4 DEF Askable, V!Person, V!Profile
<1>8. ASSUME NEW t, NEW s, NEW n \in MinScores, NEW e
      PROVE  Askable([person EXCEPT !.technologies = t],
                     [icp EXCEPT !.technologies = s, !.minScore = n, !.exclusions = e])
  BY <1>4, RulesAssumption DEF Askable, V!Person, V!Profile
<1>9. QED
  BY <1>5, <1>6, <1>7, <1>8

(* So no question about prospects has a wrong answer. *)
LEMMA ProspectsAsMeant == V!Spec => [](V!NeverRelabelled /\ V!DummiesQualify)
<1> DEFINE Asked ==
      \/ personAsked = None
      \/ /\ Askable(personAsked.person, personAsked.icp)
         /\ personAsked.wait \in Int /\ personAsked.dummy \in BOOLEAN
<1>1. V!Init => Asked
  BY DEF V!Init
<1>2. Asked /\ [V!Next]_(V!vars) => Asked'
  <2> SUFFICES ASSUME Asked, [V!Next]_(V!vars) PROVE Asked'
    OBVIOUS
  <2>1. CASE UNCHANGED V!vars
    BY <2>1 DEF V!vars
  <2>2. ASSUME NEW person, NEW icp, Askable(person, icp), V!Ask(person, icp)
        PROVE  Asked'
    <3>1. PICK wait \in Elapsed, dummy \in BOOLEAN :
             personAsked' = [person |-> person, icp |-> icp, wait |-> wait, dummy |-> dummy]
      BY <2>2 DEF V!Ask
    <3>2. wait \in Int
      BY RulesAssumption
    <3>3. /\ personAsked'.person = person /\ personAsked'.icp = icp
          /\ personAsked'.wait = wait /\ personAsked'.dummy = dummy
      BY <3>1
    <3>4. QED
      BY <2>2, <3>2, <3>3
  <2>3. CASE V!AskProspect
    <3>1. PICK w \in Word :
         \/ \E x \in Word, l \in V!Lists(Word) :
              \/ V!Ask([V!Person(w) EXCEPT !.title = x], [V!Profile(w) EXCEPT !.titles = l])
              \/ V!Ask([V!Person(w) EXCEPT !.industry = x], [V!Profile(w) EXCEPT !.industries = l])
              \/ V!Ask([V!Person(w) EXCEPT !.country = x], [V!Profile(w) EXCEPT !.geographies = l])
         \/ \E n \in Heads, l \in V!Lists(DOMAIN Band) :
              V!Ask([V!Person(w) EXCEPT !.employees = n], [V!Profile(w) EXCEPT !.sizes = l])
         \/ \E m \in V!Mailboxes : V!Ask([V!Person(w) EXCEPT !.mailbox = m], V!Profile(w))
         \/ \E t, s \in SUBSET {"selenium"}, n \in MinScores, e \in SUBSET {"domain", "company"} :
              V!Ask([V!Person(w) EXCEPT !.technologies = t],
                    [V!Profile(w) EXCEPT !.technologies = s, !.minScore = n, !.exclusions = e])
      BY <2>3 DEF V!AskProspect
    <3>2. \E person, icp : Askable(person, icp) /\ V!Ask(person, icp)
      BY <3>1, AllAskable, Zenon
    <3>3. QED
      BY <2>2, <3>2, SMTT(30)
  <2>4. QED
    BY <2>1, <2>3 DEF V!Next
<1>3. Asked => V!NeverRelabelled /\ V!DummiesQualify
  <2> SUFFICES ASSUME Asked, personAsked # None PROVE V!NeverRelabelled /\ V!DummiesQualify
    BY DEF V!NeverRelabelled, V!DummiesQualify
  <2>1. V!NeverRelabelled
    BY Relabelled DEF V!NeverRelabelled
  <2>2. V!DummiesQualify
    <3> DEFINE icp == personAsked.icp
               dummy == V!Dummy(personAsked.person, icp)
    <3> SUFFICES ASSUME dummy # None, dummy.names \cap icp.exclusions = {},
                        V!FreshAge(personAsked.wait), icp.minScore > 90 => icp.technologies # {}
                 PROVE  V!Qualifies(dummy, icp, personAsked.wait)
      BY DEF V!DummiesQualify, Askable
    <3>1. QED
      BY DummyFits
  <2>3. QED
    BY <2>1, <2>2
<1>4. QED
  BY <1>1, <1>2, <1>3, PTL DEF V!Spec

-----------------------------------------------------------------------------
(* The rules decide as they are meant to, for every question, table of an operator and
   profile: for the whole of what the components may be asked. *)
THEOREM Deciding == Spec => []DecidedAsMeant
<1>1. Spec => U!Spec /\ V!Spec /\ Z!Spec /\ F!Spec
  BY DEF Spec
<1>2. QED
  BY <1>1, RulesDecide, ProspectsAsMeant, KeysTested, GatesAgree, PTL DEF DecidedAsMeant
=============================================================================
