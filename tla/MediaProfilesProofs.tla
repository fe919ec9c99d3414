--------------------------- MODULE MediaProfilesProofs ---------------------------
(***************************************************************************)
(* Proofs about MediaProfiles for any lists of configurations, any sound   *)
(* shipped file and any bounds.                                            *)
(***************************************************************************)
EXTENDS MediaProfiles, SequenceTheorems, FiniteSetTheorems, TLAPS

-----------------------------------------------------------------------------
(* The helpers.                                                            *)

\* Min is the least element of a set of naturals that has one.
LEMMA MinIsLeast ==
  ASSUME NEW S \in SUBSET Nat, S # {}
  PROVE  /\ Min(S) \in S
         /\ \A y \in S : Min(S) <= y
<1>1. PICK x \in S : \A y \in S : ~(<<y, x>> \in OpToRel(<, Nat))
  <2>1. IsWellFoundedOn(OpToRel(<, Nat), Nat)
    BY NatLessThanWellFounded
  <2> QED
    BY <2>1, WFMin
<1>2. ASSUME NEW y \in S PROVE x <= y
  <2>1. y \in Nat /\ x \in Nat
    OBVIOUS
  <2>2. y < x => <<y, x>> \in OpToRel(<, Nat)
    BY <2>1 DEF OpToRel
  <2>3. ~(y < x)
    BY <1>1, <2>2, Zenon
  <2> QED
    BY <2>1, <2>3
<1> QED
  BY <1>2 DEF Min

\* Where a token is found: at the first profile with it, or nowhere.
LEMMA FoundProfile ==
  ASSUME profiles \in Seq(Profile), NEW token
  PROVE  /\ FindProfile(token) \in 0..Len(profiles)
         /\ FindProfile(token) # 0 => /\ FindProfile(token) \in DOMAIN profiles
                                      /\ profiles[FindProfile(token)].token = token
         /\ FindProfile(token) = 0 => \A i \in DOMAIN profiles : profiles[i].token # token
<1> DEFINE I == {i \in 1..Len(profiles) : profiles[i].token = token}
<1>1. Len(profiles) \in Nat /\ DOMAIN profiles = 1..Len(profiles)
  BY LenProperties
<1>2. FindProfile(token) = IF I # {} THEN Min(I) ELSE 0
  BY DEF FindProfile, SelectInSeq
<1>3. I \in SUBSET Nat
  BY <1>1
<1>4. CASE I # {}
  <2>1. Min(I) \in I
    BY <1>3, <1>4, MinIsLeast
  <2> QED
    BY <2>1, <1>1, <1>2, <1>4
<1>5. CASE I = {}
  BY <1>1, <1>2, <1>5
<1> QED
  BY <1>4, <1>5

\* Taking a place out of a sequence keeps the others in their order.
LEMMA RemovedAt ==
  ASSUME NEW S, NEW s \in Seq(S), NEW i \in DOMAIN s
  PROVE  /\ RemoveAt(s, i) \in Seq(S)
         /\ Len(RemoveAt(s, i)) = Len(s) - 1
         /\ \A j \in 1..(Len(s) - 1) : RemoveAt(s, i)[j] = IF j < i THEN s[j] ELSE s[j + 1]
<1>1. Len(s) \in Nat /\ DOMAIN s = 1..Len(s) /\ \A j \in 1..Len(s) : s[j] \in S
  BY LenProperties, ElementOfSeq
<1>2. i \in 1..Len(s)
  BY <1>1
<1> DEFINE front == SubSeq(s, 1, i - 1)
           back == SubSeq(s, i + 1, Len(s))
<1>3. /\ front \in Seq(S)
      /\ Len(front) = i - 1
      /\ \A j \in 1..(i - 1) : front[j] = s[j]
  <2>1. \A j \in 1..(i - 1) : s[j] \in S
    BY <1>1, <1>2
  <2>2. /\ front \in Seq(S)
        /\ Len(front) = IF 1 <= i - 1 THEN (i - 1) - 1 + 1 ELSE 0
        /\ \A j \in 1 .. (i - 1) - 1 + 1 : front[j] = s[1 + j - 1]
    BY <2>1, <1>2, SubSeqProperties
  <2> QED
    BY <2>2, <1>2
<1>4. /\ back \in Seq(S)
      /\ Len(back) = Len(s) - i
      /\ \A j \in 1..(Len(s) - i) : back[j] = s[i + j]
  <2>1. \A j \in (i + 1)..Len(s) : s[j] \in S
    BY <1>1, <1>2
  <2>2. /\ back \in Seq(S)
        /\ Len(back) = IF i + 1 <= Len(s) THEN Len(s) - (i + 1) + 1 ELSE 0
        /\ \A j \in 1 .. Len(s) - (i + 1) + 1 : back[j] = s[(i + 1) + j - 1]
    BY <2>1, <1>1, <1>2, SubSeqProperties
  <2> QED
    BY <2>2, <1>1, <1>2
<1>5. RemoveAt(s, i) = front \o back
  BY DEF RemoveAt
<1> HIDE DEF front, back
<1>6. /\ front \o back \in Seq(S)
      /\ Len(front \o back) = Len(s) - 1
      /\ \A j \in 1..(Len(s) - 1) :
           (front \o back)[j] = IF j <= i - 1 THEN front[j] ELSE back[j - (i - 1)]
  <2>1. /\ front \o back \in Seq(S)
        /\ Len(front \o back) = Len(front) + Len(back)
        /\ \A j \in 1..Len(front) + Len(back) :
             (front \o back)[j] = IF j <= Len(front) THEN front[j] ELSE back[j - Len(front)]
    BY <1>3, <1>4, ConcatProperties
  <2>2. Len(front) + Len(back) = Len(s) - 1
    BY <1>1, <1>2, <1>3, <1>4
  <2> QED
    BY <2>1, <2>2, <1>3
<1>7. ASSUME NEW j \in 1..(Len(s) - 1)
      PROVE  (front \o back)[j] = IF j < i THEN s[j] ELSE s[j + 1]
  <2>1. CASE j < i
    BY <2>1, <1>2, <1>3, <1>6
  <2>2. CASE ~(j < i)
    <3>1. /\ j - (i - 1) \in 1..(Len(s) - i)
          /\ i + (j - (i - 1)) = j + 1
          /\ ~(j <= i - 1)
      BY <2>2, <1>1, <1>2
    <3>2. back[j - (i - 1)] = s[i + (j - (i - 1))]
      BY <3>1, <1>4
    <3>3. (front \o back)[j] = back[j - (i - 1)]
      BY <3>1, <1>6
    <3> QED
      BY <2>2, <3>1, <3>2, <3>3
  <2> QED
    BY <2>1, <2>2
<1> QED
  BY <1>5, <1>6, <1>7

\* What stays of a profile when a type is removed was in it before.
LEMMA WithoutTypeKeeps ==
  ASSUME NEW S, NEW s \in Seq(S), NEW type
  PROVE  /\ WithoutType(s, type) \in Seq(S)
         /\ \A k \in DOMAIN WithoutType(s, type) :
              \E i \in DOMAIN s : WithoutType(s, type)[k] = s[i]
<1> DEFINE staying(i) == {j \in 1..i : s[j].type # type}
           n == Cardinality(staying(Len(s)))
           place(k) == Min({i \in DOMAIN s : Cardinality(staying(i)) >= k})
<1>1. Len(s) \in Nat /\ DOMAIN s = 1..Len(s)
  BY LenProperties
<1>2. n \in Nat
  <2>1. IsFiniteSet(1..Len(s))
    BY <1>1, FS_Interval
  <2>2. staying(Len(s)) \in SUBSET (1..Len(s))
    OBVIOUS
  <2>3. IsFiniteSet(staying(Len(s)))
    BY <2>1, <2>2, FS_Subset
  <2> QED
    BY <2>3, FS_CardinalityType
<1>3. ASSUME NEW k \in 1..n PROVE place(k) \in DOMAIN s
  <2> DEFINE I == {i \in DOMAIN s : Cardinality(staying(i)) >= k}
  <2>1. I \in SUBSET Nat
    BY <1>1
  <2>2. Len(s) # 0
    <3>1. SUFFICES ASSUME Len(s) = 0 PROVE FALSE
      OBVIOUS
    <3>2. staying(Len(s)) = {}
      BY <3>1
    <3>3. n = 0
      BY <3>2, FS_EmptySet
    <3> QED
      BY <3>3
  <2>3. Len(s) \in I
    BY <1>1, <1>2, <2>2
  <2>4. I # {}
    BY <2>3
  <2>5. Min(I) \in I
    BY <2>1, <2>4, MinIsLeast
  <2> QED
    BY <2>5
<1>4. WithoutType(s, type) = [k \in 1..n |-> s[place(k)]]
  BY DEF WithoutType
<1> HIDE DEF n, place
<1>5. \A k \in 1..n : s[place(k)] \in S
  BY <1>1, <1>3, ElementOfSeq
<1>6. [k \in 1..n |-> s[place(k)]] \in Seq(S)
  BY <1>2, <1>5
<1> QED
  BY <1>3, <1>4, <1>6

\* Whatever is removed, what remains was there before.
LEMMA RemainingKeeps ==
  ASSUME NEW S, NEW s \in Seq(S), NEW type, NEW token
  PROVE  /\ Remaining(s, type, token) \in Seq(S)
         /\ \A k \in DOMAIN Remaining(s, type, token) :
              \E i \in DOMAIN s : Remaining(s, type, token)[k] = s[i]
<1> DEFINE I == {i \in 1..Len(s) : s[i].token = token}
           found == SelectInSeq(s, LAMBDA c : c.token = token)
<1>1. Len(s) \in Nat /\ DOMAIN s = 1..Len(s)
  BY LenProperties
<1>2. CASE token # "" /\ found # 0
  <2>1. found = Min(I) /\ I # {}
    BY <1>2 DEF SelectInSeq
  <2>2. I \in SUBSET Nat
    BY <1>1
  <2>3. found \in DOMAIN s
    BY <2>1, <2>2, <1>1, MinIsLeast
  <2>4. Remaining(s, type, token) = RemoveAt(s, found)
    BY <1>2 DEF Remaining
  <2> HIDE DEF found
  <2>5. /\ RemoveAt(s, found) \in Seq(S)
        /\ Len(RemoveAt(s, found)) = Len(s) - 1
        /\ \A j \in 1..(Len(s) - 1) :
             RemoveAt(s, found)[j] = IF j < found THEN s[j] ELSE s[j + 1]
    BY <2>3, RemovedAt
  <2>6. DOMAIN RemoveAt(s, found) = 1..(Len(s) - 1)
    BY <2>5, LenProperties
  <2>7. ASSUME NEW k \in 1..(Len(s) - 1)
        PROVE  \E i \in DOMAIN s : RemoveAt(s, found)[k] = s[i]
    <3>1. k \in DOMAIN s /\ k + 1 \in DOMAIN s
      BY <1>1
    <3> QED
      BY <2>5, <3>1
  <2> QED
    BY <2>4, <2>5, <2>6, <2>7
<1>3. CASE ~(token # "" /\ found # 0) /\ type = "All"
  <2>1. Remaining(s, type, token) = <<>>
    BY <1>3 DEF Remaining
  <2>2. <<>> \in Seq(S) /\ DOMAIN <<>> = {}
    BY EmptySeq
  <2> QED
    BY <2>1, <2>2
<1>4. CASE ~(token # "" /\ found # 0) /\ type # "All"
  <2>1. Remaining(s, type, token) = WithoutType(s, type)
    BY <1>4 DEF Remaining
  <2> QED
    BY <2>1, WithoutTypeKeeps
<1> QED
  BY <1>2, <1>3, <1>4

-----------------------------------------------------------------------------
(* The inductive invariant: what holds of the profiles, wherever they are.  *)

NamesExisting(tree) ==
  \A i \in DOMAIN tree : \A j \in DOMAIN tree[i].configs : Refers(tree[i].configs[j])

HasFixed(tree) ==
  \A i \in DOMAIN Shipped : Shipped[i].fixed =>
    i \in DOMAIN tree /\ tree[i].fixed /\ tree[i].token = Shipped[i].token

Good(tree) == tree \in Seq(Profile) /\ NamesExisting(tree) /\ HasFixed(tree)

\* A number in a token is below the number of profiles, so the next one is new.
Fresh(tree) ==
  /\ \A i, j \in DOMAIN tree : tree[i].token = tree[j].token => i = j
  /\ \A i \in DOMAIN tree, n \in 0..MaxProfiles :
       tree[i].token = NewProfileToken(n) => n < Len(tree)

\* Between the saves of one request, too, the file is up to date.
SavedSoFar == running /\ ~unsaved /\ pc \in {"idle", "add"} => file = profiles

IInv ==
  /\ TypeOK
  /\ running => Good(profiles)
  /\ ~running => profiles = <<>> /\ pc = "idle"
  /\ file # Torn => Good(file)
  /\ ~deleted => Fresh(profiles) /\ Fresh(file)
  /\ SavedSoFar

-----------------------------------------------------------------------------
(* The changes of a tree keep it good.                                     *)

StoredConfigs == Config(ConfigTypes, ConfigTokens \cup {""})

LEMMA TreeBasics ==
  ASSUME NEW tree \in Seq(Profile)
  PROVE  /\ Len(tree) \in Nat
         /\ DOMAIN tree = 1..Len(tree)
         /\ \A i \in DOMAIN tree :
              /\ tree[i] \in Profile
              /\ tree[i].token \in ProfileTokens
              /\ tree[i].fixed \in BOOLEAN
              /\ tree[i].configs \in Seq(StoredConfigs)
<1>1. Len(tree) \in Nat /\ DOMAIN tree = 1..Len(tree)
  BY LenProperties
<1>2. \A i \in DOMAIN tree : tree[i] \in Profile
  BY <1>1, ElementOfSeq
<1> QED
  BY <1>1, <1>2 DEF Profile, StoredConfigs

\* A good tree is not the empty sequence, which stands for a torn file.
LEMMA GoodIsNotEmpty ==
  ASSUME NEW tree, Good(tree)
  PROVE  tree # <<>>
<1>1. PICK i \in DOMAIN Shipped : Shipped[i].fixed
  BY ShippedAssumption
<1>2. i \in DOMAIN tree
  BY <1>1 DEF Good, HasFixed
<1>3. DOMAIN <<>> = {}
  BY EmptySeq
<1> QED
  BY <1>2, <1>3

LEMMA ShippedIsGood == Good(Shipped) /\ Fresh(Shipped)
<1>1. Good(Shipped)
  BY ShippedAssumption DEF Good, NamesExisting, HasFixed
<1>2. \A n \in 0..MaxProfiles : NewProfileToken(n) \in {"UserProfileToken"} \X (0..MaxProfiles)
  BY DEF NewProfileToken
<1>3. Fresh(Shipped)
  BY <1>2, ShippedAssumption DEF Fresh
<1> QED
  BY <1>1, <1>3

LEMMA EmptyIsFresh == Fresh(<<>>)
BY EmptySeq DEF Fresh

\* A new profile.
LEMMA CreatedIsGood ==
  ASSUME NEW tree, Good(tree), Len(tree) < MaxProfiles, NEW p,
         p = [token |-> NewProfileToken(Len(tree)), fixed |-> FALSE, configs |-> <<>>]
  PROVE  /\ Good(Append(tree, p))
         /\ Fresh(tree) => Fresh(Append(tree, p))
<1> DEFINE grown == Append(tree, p)
<1>1. tree \in Seq(Profile)
  BY DEF Good
<1>2. /\ Len(tree) \in Nat
      /\ DOMAIN tree = 1..Len(tree)
      /\ \A i \in DOMAIN tree : tree[i].token \in ProfileTokens
  BY <1>1, TreeBasics
<1>3. NewProfileToken(Len(tree)) \in ProfileTokens
  BY <1>2, ProfilesAssumption DEF NewProfileToken, ProfileTokens
<1>4. <<>> \in Seq(StoredConfigs) /\ DOMAIN <<>> = {}
  BY EmptySeq
<1>5. p \in Profile
  BY <1>3, <1>4 DEF Profile, StoredConfigs
<1>6. /\ grown \in Seq(Profile)
      /\ Len(grown) = Len(tree) + 1
      /\ \A i \in 1..Len(tree) : grown[i] = tree[i]
      /\ grown[Len(tree) + 1] = p
  BY <1>1, <1>5, AppendProperties
<1>7. DOMAIN grown = 1..(Len(tree) + 1)
  BY <1>6, TreeBasics
<1> HIDE DEF grown
<1>8. NamesExisting(grown)
  <2> SUFFICES ASSUME NEW i \in DOMAIN grown, NEW j \in DOMAIN grown[i].configs
               PROVE  Refers(grown[i].configs[j])
    BY DEF NamesExisting
  <2>1. CASE i \in 1..Len(tree)
    BY <2>1, <1>2, <1>6 DEF Good, NamesExisting
  <2>2. CASE i = Len(tree) + 1
    BY <2>2, <1>4, <1>6
  <2> QED
    BY <2>1, <2>2, <1>2, <1>7
<1>9. HasFixed(grown)
  BY <1>2, <1>6, <1>7 DEF Good, HasFixed
<1>10. ASSUME Fresh(tree) PROVE Fresh(grown)
  <2>1. \A i \in DOMAIN tree : tree[i].token # NewProfileToken(Len(tree))
    BY <1>10, <1>2, ProfilesAssumption DEF Fresh
  <2>2. ASSUME NEW i \in DOMAIN grown, NEW j \in DOMAIN grown, grown[i].token = grown[j].token
        PROVE  i = j
    BY <2>1, <2>2, <1>10, <1>2, <1>6, <1>7 DEF Fresh
  <2>3. ASSUME NEW i \in DOMAIN grown, NEW n \in 0..MaxProfiles,
               grown[i].token = NewProfileToken(n)
        PROVE  n < Len(grown)
    <3>1. CASE i \in DOMAIN tree
      BY <3>1, <2>3, <1>10, <1>2, <1>6, ProfilesAssumption DEF Fresh
    <3>2. CASE i \notin DOMAIN tree
      BY <3>2, <2>3, <1>2, <1>6, <1>7, ProfilesAssumption DEF NewProfileToken
    <3> QED
      BY <3>1, <3>2
  <2> QED
    BY <2>2, <2>3 DEF Fresh
<1> QED
  BY <1>6, <1>8, <1>9, <1>10 DEF Good, grown

\* A profile that is not fixed is deleted: those behind it move, but no fixed one.
LEMMA DeletedIsGood ==
  ASSUME NEW tree, Good(tree), NEW k \in DOMAIN tree, ~tree[k].fixed
  PROVE  Good(RemoveAt(tree, k))
<1> DEFINE less == RemoveAt(tree, k)
<1>1. tree \in Seq(Profile)
  BY DEF Good
<1>2. Len(tree) \in Nat /\ DOMAIN tree = 1..Len(tree)
  BY <1>1, TreeBasics
<1>3. /\ less \in Seq(Profile)
      /\ Len(less) = Len(tree) - 1
      /\ \A j \in 1..(Len(tree) - 1) : less[j] = IF j < k THEN tree[j] ELSE tree[j + 1]
  BY <1>1, RemovedAt
<1>4. DOMAIN less = 1..(Len(tree) - 1)
  BY <1>3, TreeBasics
<1> HIDE DEF less
<1>5. NamesExisting(less)
  <2> SUFFICES ASSUME NEW i \in DOMAIN less, NEW j \in DOMAIN less[i].configs
               PROVE  Refers(less[i].configs[j])
    BY DEF NamesExisting
  <2>1. PICK m \in DOMAIN tree : less[i] = tree[m]
    BY <1>2, <1>3, <1>4
  <2> QED
    BY <2>1 DEF Good, NamesExisting
<1>6. HasFixed(less)
  <2> SUFFICES ASSUME NEW i \in DOMAIN Shipped, Shipped[i].fixed
               PROVE  i \in DOMAIN less /\ less[i].fixed /\ less[i].token = Shipped[i].token
    BY DEF HasFixed
  <2>1. i \in DOMAIN tree /\ tree[i].fixed /\ tree[i].token = Shipped[i].token
    BY DEF Good, HasFixed
  <2>2. i < k
    <3>1. SUFFICES ASSUME k < i PROVE FALSE
      BY <2>1, <1>2
    <3>2. DOMAIN Shipped = 1..Len(Shipped) /\ Len(Shipped) \in Nat
      BY ShippedAssumption, TreeBasics
    <3>3. k \in DOMAIN Shipped
      BY <3>1, <3>2, <1>2
    <3>4. Shipped[k].fixed
      BY <3>1, <3>3, ShippedAssumption
    <3> QED
      BY <3>3, <3>4 DEF Good, HasFixed
  <2>3. i \in 1..(Len(tree) - 1)
    BY <2>1, <2>2, <1>2
  <2> QED
    BY <2>1, <2>2, <2>3, <1>3, <1>4
<1> QED
  BY <1>3, <1>5, <1>6 DEF Good, less

\* A profile gets other configurations, which all refer to existing ones.
LEMMA ChangedIsGood ==
  ASSUME NEW tree, Good(tree), NEW k \in DOMAIN tree,
         NEW configs \in Seq(StoredConfigs),
         \A j \in DOMAIN configs : Refers(configs[j])
  PROVE  /\ Good([tree EXCEPT ![k].configs = configs])
         /\ Fresh(tree) => Fresh([tree EXCEPT ![k].configs = configs])
<1> DEFINE p == [tree[k] EXCEPT !.configs = configs]
           changed == [tree EXCEPT ![k] = p]
<1>1. tree \in Seq(Profile)
  BY DEF Good
<1>2. Len(tree) \in Nat /\ DOMAIN tree = 1..Len(tree) /\ tree[k] \in Profile
  BY <1>1, TreeBasics
<1>3. /\ p \in Profile
      /\ p.token = tree[k].token
      /\ p.fixed = tree[k].fixed
      /\ p.configs = configs
  BY <1>2 DEF Profile, StoredConfigs
<1> HIDE DEF p
<1>4. /\ changed \in Seq(Profile)
      /\ Len(changed) = Len(tree)
      /\ \A j \in 1..Len(tree) : changed[j] = IF j = k THEN p ELSE tree[j]
  BY <1>1, <1>2, <1>3, ExceptSeq
<1>5. DOMAIN changed = DOMAIN tree
  BY <1>2, <1>4, TreeBasics
<1> HIDE DEF changed
<1>6. \A j \in DOMAIN tree : /\ changed[j].token = tree[j].token
                             /\ changed[j].fixed = tree[j].fixed
  BY <1>2, <1>3, <1>4
<1>7. NamesExisting(changed)
  BY <1>2, <1>3, <1>4, <1>5 DEF Good, NamesExisting
<1>8. HasFixed(changed)
  BY <1>5, <1>6 DEF Good, HasFixed
<1>9. Fresh(tree) => Fresh(changed)
  BY <1>4, <1>5, <1>6 DEF Fresh
<1>10. [tree EXCEPT ![k].configs = configs] = changed
  BY DEF changed, p
<1> QED
  BY <1>4, <1>7, <1>8, <1>9, <1>10 DEF Good

-----------------------------------------------------------------------------
(* The invariant holds, one lemma for each action.                         *)

LEMMA InitIInv == Init => IInv
<1> SUFFICES ASSUME Init PROVE IInv
  OBVIOUS
<1>1. Good(profiles) /\ Good(file) /\ Fresh(profiles) /\ Fresh(file)
  BY ShippedIsGood DEF Init
<1>2. TypeOK
  <2>1. todo \in Seq(Config(RequestedTypes, RequestedTokens))
    BY EmptySeq DEF Init
  <2> QED
    BY <2>1, <1>1 DEF Init, TypeOK, Good
<1> QED
  BY <1>1, <1>2 DEF Init, IInv, SavedSoFar

LEMMA CreateProfileIInv ==
  ASSUME NEW list \in AddLists, IInv, CreateProfile(list)
  PROVE  IInv'
<1> DEFINE p == [token |-> NewProfileToken(Len(profiles)), fixed |-> FALSE, configs |-> <<>>]
<1>1. Good(profiles) /\ Len(profiles) < MaxProfiles /\ profiles' = Append(profiles, p)
  BY DEF IInv, CreateProfile, Receives
<1>2. Good(profiles') /\ (Fresh(profiles) => Fresh(profiles'))
  BY <1>1, CreatedIsGood
<1>3. TypeOK'
  <2>1. list \in Seq(Config(RequestedTypes, RequestedTokens))
    BY ProfilesAssumption
  <2>2. NewProfileToken(Len(profiles)) \in ProfileTokens
    <3>1. Len(profiles) \in Nat
      BY <1>1, TreeBasics DEF Good
    <3> QED
      BY <3>1, <1>1, ProfilesAssumption DEF NewProfileToken, ProfileTokens
  <2> QED
    BY <2>1, <2>2, <1>2 DEF IInv, TypeOK, CreateProfile, ThenSave, Good
<1> QED
  BY <1>2, <1>3 DEF IInv, CreateProfile, Receives, ThenSave, SavedSoFar

LEMMA DeleteProfileIInv ==
  ASSUME NEW token \in ProfileTokens, IInv, DeleteProfile(token)
  PROVE  IInv'
<1> DEFINE k == FindProfile(token)
<1>1. Good(profiles) /\ MayDelete(k) /\ profiles' = RemoveAt(profiles, k)
  BY DEF IInv, DeleteProfile, Receives
<1>2. k \in DOMAIN profiles /\ ~profiles[k].fixed
  BY <1>1, FoundProfile DEF MayDelete, Good
<1>3. Good(profiles')
  BY <1>1, <1>2, DeletedIsGood
<1>4. TypeOK'
  BY <1>3, EmptySeq DEF IInv, TypeOK, DeleteProfile, ThenSave, Good
<1> QED
  BY <1>3, <1>4 DEF IInv, DeleteProfile, Receives, ThenSave, SavedSoFar

LEMMA AddConfigurationIInv ==
  ASSUME NEW token \in ProfileTokens, NEW list \in AddLists, IInv, AddConfiguration(token, list)
  PROVE  IInv'
<1>1. TypeOK'
  BY ProfilesAssumption DEF IInv, TypeOK, AddConfiguration
<1> QED
  BY <1>1 DEF IInv, AddConfiguration, Receives, SavedSoFar, Good, NamesExisting, HasFixed, Fresh

LEMMA RemoveConfigurationIInv ==
  ASSUME NEW profile, NEW type, NEW token, IInv, RemoveConfiguration(profile, type, token)
  PROVE  IInv'
<1> DEFINE k == FindProfile(profile)
           configs == Remaining(profiles[k].configs, type, token)
<1>1. /\ Good(profiles)
      /\ k # 0
      /\ profiles' = [profiles EXCEPT ![k].configs = configs]
  BY DEF IInv, RemoveConfiguration, Receives
<1>2. k \in DOMAIN profiles
  BY <1>1, FoundProfile DEF Good
<1>3. profiles[k].configs \in Seq(StoredConfigs)
  BY <1>1, <1>2, TreeBasics DEF Good
<1> HIDE DEF k
<1>4. /\ configs \in Seq(StoredConfigs)
      /\ \A j \in DOMAIN configs : \E i \in DOMAIN profiles[k].configs :
           configs[j] = profiles[k].configs[i]
  <2> DEFINE s == profiles[k].configs
  <2>1. s \in Seq(StoredConfigs)
    BY <1>3
  <2> HIDE DEF s
  <2>2. /\ Remaining(s, type, token) \in Seq(StoredConfigs)
        /\ \A j \in DOMAIN Remaining(s, type, token) :
             \E i \in DOMAIN s : Remaining(s, type, token)[j] = s[i]
    BY <2>1, RemainingKeeps
  <2> QED
    BY <2>2 DEF s
<1> HIDE DEF configs
<1>5. \A j \in DOMAIN configs : Refers(configs[j])
  BY <1>1, <1>2, <1>4 DEF Good, NamesExisting
<1>6. Good(profiles') /\ (Fresh(profiles) => Fresh(profiles'))
  BY <1>1, <1>2, <1>4, <1>5, ChangedIsGood
<1>7. TypeOK'
  BY <1>6, EmptySeq DEF IInv, TypeOK, RemoveConfiguration, ThenSave, Good
<1> QED
  BY <1>6, <1>7 DEF IInv, RemoveConfiguration, Receives, ThenSave, SavedSoFar

LEMMA SetConfigurationIInv == IInv /\ SetConfiguration => IInv'
<1> SUFFICES ASSUME IInv, SetConfiguration PROVE IInv'
  OBVIOUS
<1>1. TypeOK'
  BY EmptySeq DEF IInv, TypeOK, SetConfiguration, ThenSave
<1> QED
  BY <1>1 DEF IInv, SetConfiguration, Receives, ThenSave, SavedSoFar

\* A configuration that may be added exists, so the profile still refers to existing ones.
LEMMA AddNextIInv == IInv /\ AddNext => IInv'
<1> SUFFICES ASSUME IInv, AddNext PROVE IInv'
  OBVIOUS
<1> DEFINE k == FindProfile(target)
           c == Head(todo)
           old == profiles[k].configs
<1>1. /\ Good(profiles)
      /\ MayAdd(c)
      /\ profiles' = [profiles EXCEPT ![k].configs = Append(old, c)]
  BY DEF IInv, AddNext
<1>2. c \in Config(RequestedTypes, RequestedTokens) /\ Tail(todo) \in Seq(Config(RequestedTypes, RequestedTokens))
  BY HeadTailProperties DEF IInv, TypeOK, AddNext
<1>3. c \in StoredConfigs /\ Refers(c)
  BY <1>1, <1>2, ProfilesAssumption DEF MayAdd, Config, ConfigTokens, Refers, StoredConfigs
<1>4. Good(profiles') /\ (Fresh(profiles) => Fresh(profiles'))
  <2>1. CASE k = 0
    <3>1. profiles \in Seq(Profile) /\ Len(profiles) \in Nat
      BY <1>1, TreeBasics DEF Good
    <3>2. profiles \in [1..Len(profiles) -> Profile] /\ 0 \notin 1..Len(profiles)
      BY <3>1, LenProperties
    <3> HIDE DEF k, c, old
    <3>3. [profiles EXCEPT ![k].configs = Append(old, c)] = profiles
      BY <2>1, <3>2
    <3> QED
      BY <3>3, <1>1
  <2>2. CASE k # 0
    <3>1. k \in DOMAIN profiles
      BY <2>2, <1>1, FoundProfile DEF Good
    <3>2. old \in Seq(StoredConfigs) /\ DOMAIN old = 1..Len(old)
      BY <3>1, <1>1, TreeBasics, LenProperties DEF Good
    <3> HIDE DEF k, c, old
    <3>3. /\ Append(old, c) \in Seq(StoredConfigs)
          /\ Len(Append(old, c)) = Len(old) + 1
          /\ \A j \in 1..Len(old) : Append(old, c)[j] = old[j]
          /\ Append(old, c)[Len(old) + 1] = c
      BY <3>2, <1>3, AppendProperties
    <3>4. Len(old) \in Nat /\ DOMAIN Append(old, c) = 1..(Len(old) + 1)
      BY <3>2, <3>3, LenProperties
    <3>5. \A j \in DOMAIN old : Refers(old[j])
      BY <3>1, <1>1 DEF Good, NamesExisting, old
    <3>6. \A j \in DOMAIN Append(old, c) : Refers(Append(old, c)[j])
      <4>1. ASSUME NEW j \in DOMAIN Append(old, c) PROVE Refers(Append(old, c)[j])
        <5>1. CASE j = Len(old) + 1
          BY <5>1, <3>3, <1>3
        <5>2. CASE j # Len(old) + 1
          <6>1. j \in 1..Len(old)
            BY <5>2, <3>4
          <6>2. Append(old, c)[j] = old[j]
            BY <6>1, <3>3
          <6> QED
            BY <6>1, <6>2, <3>2, <3>5
        <5> QED
          BY <5>1, <5>2
      <4> QED
        BY <4>1
    <3> QED
      BY <3>1, <3>3, <3>6, <1>1, ChangedIsGood
  <2> QED
    BY <2>1, <2>2
<1>5. TypeOK'
  BY <1>2, <1>4 DEF IInv, TypeOK, AddNext, Saved, Good
<1> QED
  BY <1>4, <1>5 DEF IInv, AddNext, Saved, SavedSoFar

LEMMA AddEndsIInv == IInv /\ AddEnds => IInv'
BY EmptySeq DEF IInv, TypeOK, AddEnds, Ends, SavedSoFar, Good, NamesExisting, HasFixed, Fresh

LEMMA OpenFileIInv == IInv /\ OpenFile => IInv'
<1> SUFFICES ASSUME IInv, OpenFile PROVE IInv'
  OBVIOUS
<1>1. file' = <<>> /\ Fresh(<<>>)
  BY EmptyIsFresh DEF OpenFile, Torn
<1>2. TypeOK'
  BY <1>1, EmptySeq DEF IInv, TypeOK, OpenFile
<1> QED
  BY <1>1, <1>2 DEF IInv, OpenFile, SavedSoFar, Torn

LEMMA WriteFileIInv == IInv /\ WriteFile => IInv'
<1> SUFFICES ASSUME IInv, WriteFile PROVE IInv'
  OBVIOUS
<1>1. TypeOK'
  BY EmptySeq DEF IInv, TypeOK, WriteFile, Ends
<1> QED
  BY <1>1 DEF IInv, WriteFile, Ends, SavedSoFar

LEMMA WriteFailsIInv == IInv /\ WriteFails => IInv'
<1> SUFFICES ASSUME IInv, WriteFails PROVE IInv'
  OBVIOUS
<1>1. TypeOK'
  BY EmptySeq DEF IInv, TypeOK, WriteFails, Ends
<1> QED
  BY <1>1 DEF IInv, WriteFails, Ends, SavedSoFar

LEMMA CrashIInv == IInv /\ Crash => IInv'
<1> SUFFICES ASSUME IInv, Crash PROVE IInv'
  OBVIOUS
<1>1. profiles' = <<>> /\ Fresh(<<>>)
  BY EmptyIsFresh DEF Crash
<1>2. TypeOK'
  BY <1>1, EmptySeq DEF IInv, TypeOK, Crash, Ends
<1> QED
  BY <1>1, <1>2 DEF IInv, Crash, Ends, SavedSoFar

LEMMA RestartIInv == IInv /\ Restart => IInv'
<1> SUFFICES ASSUME IInv, Restart PROVE IInv'
  OBVIOUS
<1>1. TypeOK'
  BY DEF IInv, TypeOK, Restart, requestVars
<1> QED
  BY <1>1 DEF IInv, Restart, SavedSoFar, requestVars

LEMMA NextIInv == IInv /\ [Next]_vars => IInv'
<1> SUFFICES ASSUME IInv, [Next]_vars PROVE IInv'
  OBVIOUS
<1>1. CASE \E list \in {l \in AddLists : Len(l) <= 1} : CreateProfile(list)
  BY <1>1, CreateProfileIInv
<1>2. CASE \E token \in ProfileTokens : DeleteProfile(token)
  BY <1>2, DeleteProfileIInv
<1>3. CASE \E token \in ProfileTokens : \E list \in AddLists : AddConfiguration(token, list)
  BY <1>3, AddConfigurationIInv
<1>4. CASE \E token \in ProfileTokens :
             \E type \in RequestedTypes, config \in RequestedTokens \cup {""} :
               RemoveConfiguration(token, type, config)
  BY <1>4, RemoveConfigurationIInv
<1>5. CASE SetConfiguration \/ AddNext \/ AddEnds
  BY <1>5, SetConfigurationIInv, AddNextIInv, AddEndsIInv
<1>6. CASE OpenFile \/ WriteFile \/ WriteFails
  BY <1>6, OpenFileIInv, WriteFileIInv, WriteFailsIInv
<1>7. CASE Crash \/ Restart
  BY <1>7, CrashIInv, RestartIInv
<1>8. CASE UNCHANGED vars
  BY <1>8 DEF vars, requestVars, IInv, TypeOK, SavedSoFar, Good, NamesExisting, HasFixed, Fresh
<1> QED
  BY <1>1, <1>2, <1>3, <1>4, <1>5, <1>6, <1>7, <1>8 DEF Next

LEMMA SpecIInv == Spec => []IInv
<1>1. Init => IInv
  BY InitIInv
<1>2. IInv /\ [Next]_vars => IInv'
  BY NextIInv
<1> QED
  BY <1>1, <1>2, PTL DEF Spec

-----------------------------------------------------------------------------
(* The theorems.                                                           *)

\* Every variable keeps its type, whatever is created, added and removed.
THEOREM TypeCorrect == Spec => []TypeOK
<1>1. IInv => TypeOK
  BY DEF IInv
<1> QED
  BY <1>1, SpecIInv, PTL

\* No request and no restart makes a profile refer to a configuration that does not
\* exist, so that GetProfiles always has something to describe.
THEOREM ReferencesAlwaysExist == Spec => []ReferencesExist
<1>1. IInv => ReferencesExist
  <2> SUFFICES ASSUME IInv PROVE ReferencesExist
    OBVIOUS
  <2>1. CASE running
    BY <2>1 DEF IInv, Good, NamesExisting, ReferencesExist
  <2>2. CASE ~running
    <3>1. DOMAIN profiles = {}
      BY <2>2, EmptySeq DEF IInv
    <3> QED
      BY <3>1 DEF ReferencesExist
  <2> QED
    BY <2>1, <2>2
<1> QED
  BY <1>1, SpecIInv, PTL

\* A fixed profile is at its place in memory and in every intact file, for ever.
THEOREM FixedProfilesAlwaysStay == Spec => []FixedProfilesStay
<1>1. IInv => FixedProfilesStay
  BY DEF IInv, Good, HasFixed, FixedProfilesStay, Torn
<1> QED
  BY <1>1, SpecIInv, PTL

\* Between requests the file is what the clients were shown, unless the last write failed.
THEOREM FileAlwaysFollows == Spec => []FileFollowsMemory
<1>1. IInv => FileFollowsMemory
  BY DEF IInv, SavedSoFar, FileFollowsMemory
<1> QED
  BY <1>1, SpecIInv, PTL

\* As long as nothing is deleted a token names one profile, over lost writes and restarts.
THEOREM TokensStayDistinct == Spec => []TokensDistinctUntilDelete
<1>1. IInv => TokensDistinctUntilDelete
  BY DEF IInv, Fresh, TokensDistinctUntilDelete
<1> QED
  BY <1>1, SpecIInv, PTL

================================================================================
