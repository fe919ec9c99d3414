--------------------------- MODULE MediaReadersProofs ---------------------------
(***************************************************************************)
(* Proofs about the answers of the reading handlers, from the inductive    *)
(* invariant of the profiles: for any files that agree as MediaReaders     *)
(* assumes, and any sequence of requests, crashes and restarts.  A tree    *)
(* that is a parameter is the manager's or a copy of it: which of the two  *)
(* a handler has is said in OnvifServer.                                   *)
(***************************************************************************)
EXTENDS MediaReaders, MediaProfilesProofs, SequenceFacts, FunctionTheorems

-----------------------------------------------------------------------------
(* What a profile says of a type.                                          *)

\* Max is the greatest element of a set of naturals that is bounded and has one.
LEMMA MaxIsGreatest ==
  ASSUME NEW n \in Nat, NEW S \in SUBSET (1..n), S # {}
  PROVE  Max(S) \in S /\ \A y \in S : y <= Max(S)
<1> DEFINE T == {n - x : x \in S}
<1>1. T \in SUBSET Nat /\ T # {}
  <2>1. \A x \in S : n - x \in Nat
    OBVIOUS
  <2> QED
    BY <2>1
<1>2. PICK x \in S : Min(T) = n - x
  BY <1>1, MinIsLeast
<1>3. ASSUME NEW y \in S PROVE x >= y
  <2>1. n - x <= n - y
    BY <1>1, <1>2, MinIsLeast
  <2> QED
    BY <2>1
<1>4. \A y \in S : Max(S) >= y
  BY <1>3 DEF Max
<1>5. Max(S) \in S
  BY <1>3 DEF Max
<1> QED
  BY <1>4, <1>5

\* x is the token of a configuration of the type in profile p, "" if there is none.
TokenOfType(p, type, x) ==
  IF Has(p, type) THEN \E i \in DOMAIN p.configs : p.configs[i].type = type /\ x = p.configs[i].token
                  ELSE x = ""

LEMMA FirstAndLastOfType ==
  ASSUME NEW p \in Profile, NEW type
  PROVE  TokenOfType(p, type, First(p, type)) /\ TokenOfType(p, type, Last_(p, type))
<1> DEFINE I == {i \in 1..Len(p.configs) : p.configs[i].type = type}
<1>1. Len(p.configs) \in Nat /\ DOMAIN p.configs = 1..Len(p.configs)
  BY LenProperties DEF Profile
<1>2. First(p, type) = TokenAt(p, IF I # {} THEN Min(I) ELSE 0)
  BY DEF First, SelectInSeq
<1>3. Last_(p, type) = TokenAt(p, IF I # {} THEN Max(I) ELSE 0)
  BY DEF Last_, SelectLastInSeq
<1>4. Has(p, type) <=> I # {}
  BY <1>1 DEF Has
<1>5. CASE I # {}
  <2>1. Min(I) \in I /\ Max(I) \in I
    <3>1. I \in SUBSET (1..Len(p.configs)) /\ I \in SUBSET Nat
      BY <1>1
    <3> HIDE DEF I
    <3> QED
      BY <1>1, <1>5, <3>1, MinIsLeast, MaxIsGreatest
  <2>2. Min(I) # 0 /\ Max(I) # 0
    BY <1>1, <2>1
  <2>3. First(p, type) = p.configs[Min(I)].token /\ Last_(p, type) = p.configs[Max(I)].token
    BY <1>2, <1>3, <1>5, <2>2 DEF TokenAt
  <2> QED
    BY <1>1, <1>4, <1>5, <2>1, <2>3 DEF TokenOfType
<1>6. CASE I = {}
  BY <1>2, <1>3, <1>4, <1>6 DEF TokenOfType, TokenAt
<1> QED
  BY <1>5, <1>6

\* Without repetitions the first is the last.
LEMMA FirstIsLast ==
  ASSUME NEW p \in Profile, Unrepeated(p), NEW type
  PROVE  First(p, type) = Last_(p, type)
<1>1. TokenOfType(p, type, First(p, type)) /\ TokenOfType(p, type, Last_(p, type))
  BY FirstAndLastOfType
<1>2. CASE Has(p, type)
  <2>1. PICK i \in DOMAIN p.configs : p.configs[i].type = type /\ First(p, type) = p.configs[i].token
    BY <1>1, <1>2 DEF TokenOfType
  <2>2. PICK j \in DOMAIN p.configs : p.configs[j].type = type /\ Last_(p, type) = p.configs[j].token
    BY <1>1, <1>2 DEF TokenOfType
  <2> QED
    BY <2>1, <2>2 DEF Unrepeated
<1>3. CASE ~Has(p, type)
  BY <1>1, <1>3 DEF TokenOfType
<1> QED
  BY <1>2, <1>3

\* What a profile of a good tree says of a type is in the list of the type.
LEMMA TokenIsListed ==
  ASSUME NEW tree, Good(tree), NEW i \in DOMAIN tree, NEW type, NEW x,
         TokenOfType(tree[i], type, x)
  PROVE  /\ x # "" => x \in List(type)
         /\ Has(tree[i], type) /\ type \in DOMAIN Configurations => x \in Configurations[type]
<1>1. Has(tree[i], type) => \E j \in DOMAIN tree[i].configs :
        /\ tree[i].configs[j].type = type /\ x = tree[i].configs[j].token
        /\ Refers(tree[i].configs[j])
  BY DEF TokenOfType, Good, NamesExisting
<1>2. ~Has(tree[i], type) => x = ""
  BY DEF TokenOfType
<1> QED
  BY <1>1, <1>2 DEF Refers, List

-----------------------------------------------------------------------------
(* Tokens of profiles, with and without a channel.                         *)

LEMMA CleanedTokens ==
  ASSUME NEW token \in ProfileTokens
  PROVE  /\ CleanedName(token) = token
         /\ \A channel : CleanedName(ChannelToken(channel, token)) = token
<1>1. token \in STRING \X Nat \/ token \in {"UserProfileToken"} \X (0..MaxProfiles)
  BY FilesAssumption DEF ProfileTokens
<1>2. PICK word, n : token = <<word, n>>
  BY <1>1
<1>3. Len(token) = 2 /\ token \in Seq({word, n})
  BY <1>2
<1>4. ASSUME NEW channel PROVE CleanedName(ChannelToken(channel, token)) = token
  <2> DEFINE S == {word, n, channel}
  <2>1. token \in Seq(S) /\ channel \in S /\ <<channel>> \in Seq(S) /\ Len(<<channel>>) = 1
    BY <1>2
  <2>2. Len(<<channel>> \o token) = 3
    BY <1>3, <2>1, ConcatProperties
  <2>3. Tail(<<channel>> \o token) = token
    BY <2>1, PrefixedQueue
  <2> QED
    BY <2>2, <2>3 DEF CleanedName, ChannelToken
<1> QED
  BY <1>3, <1>4 DEF CleanedName

\* Both services look a token up alike, and find it.
LEMMA ListedIsFound ==
  ASSUME profiles \in Seq(Profile), NEW i \in DOMAIN profiles
  PROVE  /\ profiles[i].token \in ProfileTokens
         /\ FindProfile(profiles[i].token) \in DOMAIN profiles
         /\ FindProfile(profiles[i].token) # 0
         /\ profiles[FindProfile(profiles[i].token)].token = profiles[i].token
         /\ IndexIn(profiles, profiles[i].token) = FindProfile(profiles[i].token)
<1>1. profiles[i].token \in ProfileTokens
  BY TreeBasics
<1>2. FindProfile(profiles[i].token) # 0
  BY FoundProfile
<1>3. IndexIn(profiles, profiles[i].token) = FindProfile(profiles[i].token)
  BY DEF IndexIn, FindProfile, SelectInSeq
<1> QED
  BY <1>1, <1>2, <1>3, FoundProfile

\* The readers of a copy look a token up in it.
LEMMA IndexedProfile ==
  ASSUME NEW tree \in Seq(Profile), NEW token
  PROVE  /\ IndexIn(tree, token) # 0 => /\ IndexIn(tree, token) \in DOMAIN tree
                                        /\ tree[IndexIn(tree, token)].token = token
         /\ IndexIn(tree, token) = 0 => \A i \in DOMAIN tree : tree[i].token # token
<1> DEFINE I == {i \in 1..Len(tree) : tree[i].token = token}
<1>1. Len(tree) \in Nat /\ DOMAIN tree = 1..Len(tree)
  BY LenProperties
<1>2. IndexIn(tree, token) = IF I # {} THEN Min(I) ELSE 0
  BY DEF IndexIn, SelectInSeq
<1>3. I \in SUBSET Nat
  BY <1>1
<1>4. CASE I # {}
  <2>1. Min(I) \in I
    BY <1>3, <1>4, MinIsLeast
  <2> QED
    BY <2>1, <1>1, <1>2, <1>4
<1>5. CASE I = {}
  BY <1>1, <1>2, <1>5
<1> QED
  BY <1>4, <1>5

-----------------------------------------------------------------------------
(* The answers that describe a profile.                                    *)

Described2(tokenOf) == {t \in LookedUp \cup (ConfigTypes \cap DOMAIN HardCoded) : tokenOf[t] # ""}

\* Each token is one of the list of its type.
AllListed(tokenOf) == \A t \in ConfigTypes : tokenOf[t] # "" => tokenOf[t] \in List(t)

LEMMA AnswersAreAnswered ==
  \A x : Answered(Answers(x)) /\ Answers(x).shows = x /\ Answers(Answers(x).shows) = Answers(x)
BY DEF Answered, Answers

LEMMA ProfileToSoapAnswers ==
  ASSUME NEW tokenOf, AllListed(tokenOf)
  PROVE  ProfileToSoap(tokenOf) =
           Answers([t \in Described2(tokenOf) |-> IF t \in LookedUp THEN tokenOf[t] ELSE HardCoded[t]])
BY DEF ProfileToSoap, Described2, LookedUp, AllListed

\* The tokens that Media2 describes a profile of a good tree with are all listed.
LEMMA TokensOfProfile ==
  ASSUME NEW tree, Good(tree), NEW i \in DOMAIN tree
  PROVE  AllListed(Unfiltered(tree[i])) /\ \A types : AllListed(Filtered(tree[i], types))
<1>1. tree[i] \in Profile
  BY TreeBasics DEF Good
<1>2. ASSUME NEW t \in ConfigTypes
      PROVE  /\ First(tree[i], t) # "" => First(tree[i], t) \in List(t)
             /\ Last_(tree[i], t) # "" => Last_(tree[i], t) \in List(t)
  BY <1>1, FirstAndLastOfType, TokenIsListed
<1> QED
  BY <1>2 DEF Unfiltered, Filtered, AllListed

LEMMA ProfileIsAnswered ==
  ASSUME NEW tokenOf, AllListed(tokenOf)
  PROVE  Answered(ProfileToSoap(tokenOf))
<1>1. PICK shown : ProfileToSoap(tokenOf) = Answers(shown)
  BY ProfileToSoapAnswers, Zenon
<1>2. Answered(Answers(shown))
  BY AnswersAreAnswered
<1> QED
  BY <1>1, <1>2, Zenon

\* What Media shows of a profile; one with an audio configuration that does not exist
\* would throw.
MediaList(t) == IF t = "VideoEncoder" THEN Media1Encoders ELSE List(t)

LEMMA MediaProfileAnswers ==
  ASSUME NEW tree, Good(tree), NEW i \in DOMAIN tree
  PROVE  MediaProfile(tree[i]) =
           Answers([t \in {u \in LookedUp : First(tree[i], u) \in MediaList(u)} |-> First(tree[i], t)])
<1>1. \A t \in ConfigTypes : First(tree[i], t) # "" => First(tree[i], t) \in List(t)
  BY TokensOfProfile DEF Unfiltered, AllListed
<1>2. \A t \in LookedUp \cap {"AudioSource", "AudioEncoder"} :
        First(tree[i], t) \in MediaList(t) \cup {""}
  BY <1>1 DEF LookedUp, MediaList
<1> QED
  BY <1>2 DEF MediaProfile, MediaList

\* GetProfiles of Media2 describes each profile as the one found by its token.
LEMMA ListAnswers ==
  ASSUME Good(profiles), NEW types
  PROVE  GetProfiles2(types, 0) =
           Answers([i \in DOMAIN profiles |->
             [token |-> profiles[i].token,
              configs |-> ProfileToSoap(Filtered(profiles[FindProfile(profiles[i].token)], types)).shows]])
<1> DEFINE found(i) == profiles[FindProfile(profiles[i].token)]
           described == [i \in DOMAIN profiles |-> ProfileToSoap(Filtered(found(i), types))]
<1>1. ASSUME NEW i \in DOMAIN profiles
      PROVE  Answered(described[i]) /\ found(i).token = profiles[i].token
  <2>1. FindProfile(profiles[i].token) \in DOMAIN profiles /\ found(i).token = profiles[i].token
    BY ListedIsFound DEF Good
  <2>2. AllListed(Filtered(found(i), types))
    BY <2>1, TokensOfProfile
  <2>3. described[i] = ProfileToSoap(Filtered(found(i), types))
    OBVIOUS
  <2> HIDE DEF found, described
  <2>4. Answered(described[i])
    BY <2>2, <2>3, ProfileIsAnswered
  <2> QED
    BY <2>1, <2>4
<1>2. GetProfiles2(types, 0) =
        IF 0 > 0 \/ \E i \in DOMAIN described : ~Answered(described[i])
        THEN Throws("runtime_error")
        ELSE Answers([i \in DOMAIN profiles |->
                        [token |-> found(i).token, configs |-> described[i].shows]])
  BY DEF GetProfiles2
<1>3. DOMAIN described = DOMAIN profiles
  OBVIOUS
<1>4. ~(0 > 0)
  OBVIOUS
<1>5. [i \in DOMAIN profiles |-> [token |-> found(i).token, configs |-> described[i].shows]]
        = [i \in DOMAIN profiles |->
             [token |-> profiles[i].token, configs |-> ProfileToSoap(Filtered(found(i), types)).shows]]
  BY <1>1
<1> QED
  BY <1>1, <1>2, <1>3, <1>4, <1>5

\* Media describes a profile of a good tree, and with no channel each one.
LEMMA MediaIsAnswered ==
  ASSUME NEW tree, Good(tree)
  PROVE  /\ \A i \in DOMAIN tree : Answered(MediaProfile(tree[i]))
         /\ GetProfiles1(tree, 0) = Answers({tree[i].token : i \in DOMAIN tree})
         /\ Answered(GetProfiles1(tree, 0))
<1>1. ASSUME NEW i \in DOMAIN tree PROVE Answered(MediaProfile(tree[i]))
  <2>1. PICK shown : MediaProfile(tree[i]) = Answers(shown)
    BY MediaProfileAnswers, Zenon
  <2>2. Answered(Answers(shown))
    BY AnswersAreAnswered
  <2> QED
    BY <2>1, <2>2, Zenon
<1>2. GetProfiles1(tree, 0) = Answers({tree[i].token : i \in DOMAIN tree})
  BY <1>1 DEF GetProfiles1
<1>3. Answered(GetProfiles1(tree, 0))
  BY <1>2, AnswersAreAnswered
<1> QED
  BY <1>1, <1>2, <1>3

\* A profile found by its token, with or without a channel.
LEMMA SingleAnswers ==
  ASSUME Good(profiles), NEW i \in DOMAIN profiles, NEW token,
         CleanedName(token) = profiles[i].token
  PROVE  /\ GetProfile2(token) = ProfileToSoap(Unfiltered(profiles[FindProfile(profiles[i].token)]))
         /\ Answered(GetProfile2(token))
<1> DEFINE k == FindProfile(profiles[i].token)
<1>1. k \in DOMAIN profiles /\ k # 0
  BY ListedIsFound DEF Good
<1>2. GetProfile2(token) = ProfileToSoap(Unfiltered(profiles[k]))
  BY <1>1 DEF GetProfile2
<1> HIDE DEF k
<1>3. Answered(ProfileToSoap(Unfiltered(profiles[k])))
  BY <1>1, TokensOfProfile, ProfileIsAnswered
<1>4. Answered(GetProfile2(token))
  BY <1>2, <1>3
<1> QED
  BY <1>2, <1>4 DEF k

LEMMA CopyAnswers ==
  ASSUME NEW tree, Good(tree), NEW i \in DOMAIN tree, NEW token,
         CleanedName(token) = tree[i].token
  PROVE  /\ IndexIn(tree, tree[i].token) \in DOMAIN tree
         /\ IndexIn(tree, tree[i].token) # 0
         /\ GetProfile1(tree, token) = MediaProfile(tree[IndexIn(tree, tree[i].token)])
         /\ Answered(GetProfile1(tree, token))
<1> DEFINE k == IndexIn(tree, tree[i].token)
<1>1. k \in DOMAIN tree /\ k # 0
  BY IndexedProfile DEF Good
<1>2. GetProfile1(tree, token) = MediaProfile(tree[k])
  BY <1>1 DEF GetProfile1
<1> HIDE DEF k
<1>3. Answered(MediaProfile(tree[k]))
  BY <1>1, MediaIsAnswered
<1>4. Answered(GetProfile1(tree, token))
  BY <1>2, <1>3
<1> QED
  BY <1>1, <1>2, <1>4 DEF k

-----------------------------------------------------------------------------
(* The answers to a token that exists.                                     *)

LEMMA SnapshotAnswers ==
  ASSUME NEW token, FindProfile(token) # 0
  PROVE  /\ GetSnapshotUri(token).throws # "no_such_profile"
         /\ Answered(GetSnapshotUri(token)) <=>
              /\ First(profiles[FindProfile(token)], "VideoSource") # ""
              /\ First(profiles[FindProfile(token)], "VideoEncoder") # ""
<1> DEFINE k == FindProfile(token)
           missing == "" \in {First(profiles[k], "VideoSource"), First(profiles[k], "VideoEncoder")}
<1>1. CASE missing
  <2>1. GetSnapshotUri(token) = Throws("incomplete_configuration")
    BY <1>1, Zenon DEF GetSnapshotUri
  <2>2. GetSnapshotUri(token).throws = "incomplete_configuration"
    BY <2>1 DEF Throws
  <2> QED
    BY <1>1, <2>2, Zenon DEF Answered
<1>2. CASE ~missing
  <2>1. GetSnapshotUri(token) = Answers({"snapshot"})
    BY <1>2, Zenon DEF GetSnapshotUri
  <2>2. Answered(GetSnapshotUri(token))
    BY <2>1, AnswersAreAnswered
  <2>3. GetSnapshotUri(token).throws = ""
    BY <2>2, Zenon DEF Answered
  <2> QED
    BY <1>2, <2>2, <2>3, Zenon
<1> QED
  BY <1>1, <1>2

\* The first source that a profile has is one of the list.
LEMMA CompatibleAnswers ==
  ASSUME Good(profiles), NEW token, FindProfile(token) \in DOMAIN profiles, FindProfile(token) # 0
  PROVE  LET answer == GetCompatibleConfigurations(token) IN
         IF Has(profiles[FindProfile(token)], "VideoSource") THEN Answered(answer)
         ELSE answer.throws = "runtime_error"
<1> DEFINE k == FindProfile(token)
           source == First(profiles[k], "VideoSource")
<1>1. CASE ~Has(profiles[k], "VideoSource")
  <2>1. GetCompatibleConfigurations(token) = Throws("runtime_error")
    BY <1>1, Zenon DEF GetCompatibleConfigurations
  <2>2. GetCompatibleConfigurations(token).throws = "runtime_error"
    BY <2>1 DEF Throws
  <2> QED
    BY <1>1, <2>2, Zenon
<1>2. CASE Has(profiles[k], "VideoSource")
  <2>1. source \in List("VideoSource")
    <3>1. profiles[k] \in Profile
      BY TreeBasics DEF Good
    <3>2. TokenOfType(profiles[k], "VideoSource", source)
      BY <3>1, FirstAndLastOfType
    <3> QED
      BY <1>2, <3>2, TokenIsListed, ReadersAssumption DEF List
  <2>2. PICK shown : GetCompatibleConfigurations(token) = Answers(shown)
    BY <1>2, <2>1, Zenon DEF GetCompatibleConfigurations
  <2>3. Answered(Answers(shown))
    BY AnswersAreAnswered
  <2> QED
    BY <1>2, <2>2, <2>3, Zenon
<1> QED
  BY <1>1, <1>2

LEMMA OptionsAreAnswered ==
  ASSUME NEW tree, NEW token, IndexIn(tree, token) # 0
  PROVE  Answered(GetVideoEncoderConfigurationOptions(tree, token))
<1>1. GetVideoEncoderConfigurationOptions(tree, token) = Answers(List("VideoEncoder"))
  BY DEF GetVideoEncoderConfigurationOptions
<1> QED
  BY <1>1, AnswersAreAnswered

\* What Media shows for channels are tokens of profiles with a channel.
LEMMA ChannelTokens ==
  ASSUME NEW tree, NEW token \in GetProfiles1(tree, 2).shows
  PROVE  \E i \in DOMAIN tree : \E c : token = ChannelToken(c, tree[i].token)
<1> DEFINE listed == {i \in DOMAIN tree : \E j \in DOMAIN tree :
                       i <= j /\ First(tree[j], "VideoSource") = First(tree[1], "VideoSource")}
           fails == \/ \E i \in DOMAIN tree : ~Has(tree[i], "VideoSource")
                    \/ \E i \in listed : ~Answered(MediaProfile(tree[i]))
<1>1. GetProfiles1(tree, 2) =
        IF fails THEN Throws("runtime_error")
        ELSE Answers({ChannelToken(c, tree[i].token) : c \in 0..1, i \in listed})
  <2>1. 2 # 0 /\ 2 - 1 = 1 /\ 2 > 0
    OBVIOUS
  <2> QED
    BY <2>1 DEF GetProfiles1
<1> listed \in SUBSET DOMAIN tree
  OBVIOUS
<1> HIDE DEF listed, fails
<1>2. Throws("runtime_error").shows = {}
  BY DEF Throws
<1>3. \A x : Answers(x).shows = x
  BY AnswersAreAnswered
<1>4. token \in {ChannelToken(c, tree[i].token) : c \in 0..1, i \in listed}
  BY <1>1, <1>2, <1>3
<1> QED
  BY <1>4

\* With channels or without, Media lists tokens of profiles.
LEMMA ListedByMedia ==
  ASSUME NEW tree, Good(tree),
         NEW token \in GetProfiles1(tree, 0).shows \cup GetProfiles1(tree, 2).shows
  PROVE  \E i \in DOMAIN tree : CleanedName(token) = tree[i].token
<1>1. \A i \in DOMAIN tree : tree[i].token \in ProfileTokens
  BY TreeBasics DEF Good
<1>2. CASE token \in GetProfiles1(tree, 0).shows
  <2>1. GetProfiles1(tree, 0).shows = {tree[i].token : i \in DOMAIN tree}
    BY MediaIsAnswered, AnswersAreAnswered, Zenon
  <2>2. PICK i \in DOMAIN tree : token = tree[i].token
    BY <1>2, <2>1
  <2> QED
    BY <1>1, <2>2, CleanedTokens
<1>3. CASE token \in GetProfiles1(tree, 2).shows
  BY <1>1, <1>3, ChannelTokens, CleanedTokens
<1> QED
  BY <1>2, <1>3

-----------------------------------------------------------------------------
(* The theorems.                                                           *)

\* No sequence of requests, failed writes, crashes and restarts makes a profile that
\* keeps GetProfiles of either service from answering.
LEMMA IInvListed == IInv => ProfilesCanBeListed
<1> SUFFICES ASSUME IInv, Receives PROVE ProfilesCanBeListed
  BY DEF ProfilesCanBeListed
<1>1. Good(profiles)
  BY DEF IInv, Receives
<1>2. Answered(GetProfiles1(profiles, 0))
  BY <1>1, MediaIsAnswered
<1>3. ASSUME NEW types PROVE Answered(GetProfiles2(types, 0))
  <2>1. PICK shown : GetProfiles2(types, 0) = Answers(shown)
    BY <1>1, ListAnswers, Zenon
  <2>2. Answered(Answers(shown))
    BY AnswersAreAnswered
  <2> QED
    BY <2>1, <2>2, Zenon
<1> QED
  BY <1>2, <1>3 DEF ProfilesCanBeListed

\* Whatever was created, changed and deleted, GetProfiles finds every configuration that
\* a profile names, so no profile makes the list of all of them fail.
THEOREM ProfilesCanAlwaysBeListed == Spec => []ProfilesCanBeListed
BY SpecIInv, IInvListed, PTL

\* The list of Media2, whatever is to be shown of each profile.
LEMMA ListTokens ==
  ASSUME Good(profiles), NEW types
  PROVE  LET list == GetProfiles2(types, 0).shows IN
         /\ DOMAIN list = DOMAIN profiles
         /\ \A i \in DOMAIN profiles :
              /\ list[i].token = profiles[i].token
              /\ list[i].configs =
                   ProfileToSoap(Filtered(profiles[FindProfile(profiles[i].token)], types)).shows
<1> DEFINE list == GetProfiles2(types, 0).shows
           shown == [i \in DOMAIN profiles |->
             [token |-> profiles[i].token,
              configs |-> ProfileToSoap(Filtered(profiles[FindProfile(profiles[i].token)], types)).shows]]
<1>1. GetProfiles2(types, 0) = Answers(shown)
  BY ListAnswers
<1>2. Answers(shown).shows = shown
  BY AnswersAreAnswered
<1>3. list = shown
  BY <1>1, <1>2, Zenon
<1> QED
  BY <1>3

\* The readers of the manager accept the token of a profile that exists.
LEMMA ManagerAccepts ==
  ASSUME Good(profiles), NEW i \in DOMAIN profiles, NEW token, token = profiles[i].token
  PROVE  /\ Answered(GetProfile2(token))
         /\ GetSnapshotUri(token).throws # "no_such_profile"
         /\ GetCompatibleConfigurations(token).throws \notin {"no_such_profile", "no_config"}
<1>1. /\ token \in ProfileTokens
      /\ FindProfile(token) \in DOMAIN profiles
      /\ FindProfile(token) # 0
  BY ListedIsFound DEF Good
<1>2. CleanedName(token) = profiles[i].token
  BY <1>1, CleanedTokens
<1>3. Answered(GetProfile2(token))
  BY <1>2, SingleAnswers
<1>4. GetSnapshotUri(token).throws # "no_such_profile"
  BY <1>1, SnapshotAnswers
<1>5. GetCompatibleConfigurations(token).throws \notin {"no_such_profile", "no_config"}
  <2>1. \/ Answered(GetCompatibleConfigurations(token))
        \/ GetCompatibleConfigurations(token).throws = "runtime_error"
    BY <1>1, CompatibleAnswers
  <2> QED
    BY <2>1, Zenon DEF Answered
<1> QED
  BY <1>3, <1>4, <1>5

\* So do the readers of a copy, of a profile that is in the copy.
LEMMA CopyAccepts ==
  ASSUME NEW tree, Good(tree), NEW token \in ProfileTokens, IndexIn(tree, token) # 0
  PROVE  /\ Answered(GetProfile1(tree, token))
         /\ Answered(GetVideoEncoderConfigurationOptions(tree, token))
<1>1. CleanedName(token) = token
  BY CleanedTokens
<1>2. PICK i \in DOMAIN tree : tree[i].token = token
  BY IndexedProfile DEF Good
<1>3. Answered(GetProfile1(tree, token))
  BY <1>1, <1>2, CopyAnswers
<1> QED
  BY <1>3, OptionsAreAnswered

\* A profile says something of a video type just when Media2 shows it, and then what it
\* says is in Media's list too and, of an encoder, has a stream.
Says(p, type) == First(p, type) # ""

LEMMA VideoOfProfile ==
  ASSUME NEW tree, Good(tree), NEW k \in DOMAIN tree, NEW t \in {"VideoSource", "VideoEncoder"}
  PROVE  /\ t \in LookedUp
         /\ t \in Described2(Unfiltered(tree[k])) <=> Says(tree[k], t)
         /\ Unfiltered(tree[k])[t] = First(tree[k], t)
         /\ Says(tree[k], t) => First(tree[k], t) \in MediaList(t)
         /\ t = "VideoEncoder" => (Says(tree[k], t) <=> First(tree[k], t) \in Streams)
<1>1. t \in ConfigTypes /\ t \in DOMAIN Configurations
  BY ReadersAssumption, ProfilesAssumption
<1>2. t \in LookedUp
  BY <1>1 DEF LookedUp
<1>3. Unfiltered(tree[k])[t] = First(tree[k], t)
  BY <1>1 DEF Unfiltered
<1>4. t \in Described2(Unfiltered(tree[k])) <=> Says(tree[k], t)
  BY <1>2, <1>3 DEF Described2, Says
<1>5. Says(tree[k], t) => First(tree[k], t) \in List(t)
  BY <1>1, <1>3, TokensOfProfile DEF AllListed, Says
<1>6. List(t) = Configurations[t]
  BY <1>1 DEF List
<1>7. Says(tree[k], t) => First(tree[k], t) \in MediaList(t)
  BY <1>5, <1>6, FilesAssumption DEF MediaList
<1>8. ASSUME t = "VideoEncoder" PROVE Says(tree[k], t) <=> First(tree[k], t) \in Streams
  <2>1. Says(tree[k], t) => First(tree[k], t) \in Streams
    BY <1>5, <1>6, <1>8, FilesAssumption
  <2>2. First(tree[k], t) \in Streams => Says(tree[k], t)
    BY FilesAssumption DEF Says
  <2> QED
    BY <2>1, <2>2
<1> QED
  BY <1>2, <1>3, <1>4, <1>7, <1>8

\* An encoder is shown by the list, which has the last of a type, just when the others,
\* which have the first, find one.
LEMMA EncoderIsSaid ==
  ASSUME NEW tree, Good(tree), NEW k \in DOMAIN tree
  PROVE  Last_(tree[k], "VideoEncoder") # "" <=> Says(tree[k], "VideoEncoder")
<1> DEFINE p == tree[k]
<1>1. /\ TokenOfType(p, "VideoEncoder", First(p, "VideoEncoder"))
      /\ TokenOfType(p, "VideoEncoder", Last_(p, "VideoEncoder"))
  BY TreeBasics, FirstAndLastOfType DEF Good
<1>2. CASE Has(p, "VideoEncoder")
  <2>1. /\ First(p, "VideoEncoder") \in Configurations["VideoEncoder"]
        /\ Last_(p, "VideoEncoder") \in Configurations["VideoEncoder"]
    BY <1>1, <1>2, TokenIsListed, ReadersAssumption
  <2>2. "" \notin Configurations["VideoEncoder"]
    BY FilesAssumption
  <2> QED
    BY <2>1, <2>2 DEF Says
<1>3. CASE ~Has(p, "VideoEncoder")
  BY <1>1, <1>3 DEF TokenOfType, Says
<1> QED
  BY <1>2, <1>3

\* The list of Media2 shows a profile just if its token is found, and with a type just
\* if the profile says something of the type.
LEMMA ListShows ==
  ASSUME Good(profiles), NEW token, NEW type \in {"VideoSource", "VideoEncoder"}
  PROVE  LET list == GetProfiles2({"All"}, 0).shows
             with == {list[i].token : i \in {j \in DOMAIN list : type \in DOMAIN list[j].configs}} IN
         /\ token \in {list[i].token : i \in DOMAIN list} <=> FindProfile(token) # 0
         /\ token \in with <=> /\ FindProfile(token) # 0
                               /\ Last_(profiles[FindProfile(token)], type) # ""
<1> DEFINE list == GetProfiles2({"All"}, 0).shows
           with == {list[i].token : i \in {j \in DOMAIN list : type \in DOMAIN list[j].configs}}
<1>1. /\ DOMAIN list = DOMAIN profiles
      /\ \A i \in DOMAIN profiles :
           /\ list[i].token = profiles[i].token
           /\ list[i].configs =
                ProfileToSoap(Filtered(profiles[FindProfile(profiles[i].token)], {"All"})).shows
  BY ListTokens
<1> HIDE DEF list
<1>2. ASSUME NEW i \in DOMAIN profiles
      PROVE  type \in DOMAIN list[i].configs
               <=> Last_(profiles[FindProfile(profiles[i].token)], type) # ""
  <2> DEFINE k == FindProfile(profiles[i].token)
             D == Described2(Filtered(profiles[k], {"All"}))
             f == [t \in D |-> IF t \in LookedUp THEN Filtered(profiles[k], {"All"})[t] ELSE HardCoded[t]]
  <2>1. k \in DOMAIN profiles
    BY ListedIsFound DEF Good
  <2>2. ProfileToSoap(Filtered(profiles[k], {"All"})) = Answers(f)
    BY <2>1, TokensOfProfile, ProfileToSoapAnswers
  <2>3. type \in ConfigTypes /\ type \in LookedUp
    BY <2>1, VideoOfProfile DEF LookedUp
  <2>4. Filtered(profiles[k], {"All"})[type] = Last_(profiles[k], type)
    <3>1. {type, "All"} \cap {"All"} # {}
      OBVIOUS
    <3> QED
      BY <2>3, <3>1, Zenon DEF Filtered
  <2>5. type \in DOMAIN f <=> Last_(profiles[k], type) # ""
    <3>1. type \in D <=> Filtered(profiles[k], {"All"})[type] # ""
      BY <2>3, Zenon DEF Described2
    <3>2. DOMAIN f = D
      OBVIOUS
    <3> HIDE DEF D, f, k
    <3> QED
      BY <2>4, <3>1, <3>2
  <2> HIDE DEF f, k
  <2>6. list[i].configs = f
    BY <1>1, <2>2, AnswersAreAnswered DEF k
  <2> QED
    BY <2>5, <2>6 DEF k
<1>3. token \in {list[i].token : i \in DOMAIN list} <=> FindProfile(token) # 0
  <2>1. token \in {list[i].token : i \in DOMAIN list} <=> \E i \in DOMAIN profiles : profiles[i].token = token
    BY <1>1
  <2> QED
    BY <2>1, FoundProfile DEF Good
<1>4. token \in with <=> FindProfile(token) # 0 /\ Last_(profiles[FindProfile(token)], type) # ""
  <2>1. token \in with <=> \E i \in DOMAIN profiles :
          profiles[i].token = token /\ type \in DOMAIN list[i].configs
    BY <1>1
  <2> HIDE DEF with
  <2>2. ASSUME NEW i \in DOMAIN profiles, profiles[i].token = token
        PROVE  type \in DOMAIN list[i].configs <=> Last_(profiles[FindProfile(token)], type) # ""
    BY <1>2, <2>2
  <2>3. FindProfile(token) # 0 <=> \E i \in DOMAIN profiles : profiles[i].token = token
    BY FoundProfile DEF Good
  <2> QED
    BY <2>1, <2>2, <2>3
<1> QED
  BY <1>3, <1>4 DEF list

\* The stream of a profile that exists.
LEMMA StreamAnswers ==
  ASSUME NEW tree, Good(tree), NEW token, NEW k \in DOMAIN tree, k # 0, IndexIn(tree, token) = k
  PROVE  GetStreamUri(tree, token, 0) =
           IF Says(tree[k], "VideoEncoder") THEN Answers({First(tree[k], "VideoEncoder")})
                                            ELSE Throws("runtime_error")
<1>1. ~(0 > 0)
  OBVIOUS
<1>2. Says(tree[k], "VideoEncoder") <=> First(tree[k], "VideoEncoder") \in Streams
  BY VideoOfProfile
<1> QED
  BY <1>1, <1>2 DEF GetStreamUri

\* Of a profile that it lists, Media shows the encoder that has the stream.
LEMMA StreamIsShown ==
  ASSUME NEW tree, Good(tree), NEW token \in GetProfiles1(tree, 0).shows
  PROVE  LET shown == GetProfile1(tree, token).shows IN
         GetStreamUri(tree, token, 0) = IF "VideoEncoder" \in DOMAIN shown
                                        THEN Answers({shown["VideoEncoder"]})
                                        ELSE Throws("runtime_error")
<1>1. PICK i \in DOMAIN tree : token = tree[i].token
  <2>1. GetProfiles1(tree, 0).shows = {tree[i].token : i \in DOMAIN tree}
    BY MediaIsAnswered, AnswersAreAnswered, Zenon
  <2> QED
    BY <2>1
<1>2. CleanedName(token) = token
  BY <1>1, TreeBasics, CleanedTokens DEF Good
<1>3. PICK k : k = IndexIn(tree, token)
  OBVIOUS
<1>4. k \in DOMAIN tree /\ k # 0 /\ GetProfile1(tree, token) = MediaProfile(tree[k])
  BY <1>1, <1>2, <1>3, CopyAnswers
<1> DEFINE g == [u \in {v \in LookedUp : First(tree[k], v) \in MediaList(v)} |-> First(tree[k], u)]
<1>5. MediaProfile(tree[k]) = Answers(g)
  BY <1>4, MediaProfileAnswers
<1>6. GetStreamUri(tree, token, 0) =
        IF Says(tree[k], "VideoEncoder") THEN Answers({First(tree[k], "VideoEncoder")})
                                         ELSE Throws("runtime_error")
  BY <1>3, <1>4, StreamAnswers
<1>7. Says(tree[k], "VideoEncoder") <=> First(tree[k], "VideoEncoder") \in MediaList("VideoEncoder")
  <2>1. Says(tree[k], "VideoEncoder") => First(tree[k], "VideoEncoder") \in MediaList("VideoEncoder")
    BY <1>4, VideoOfProfile
  <2>2. ~Says(tree[k], "VideoEncoder") => First(tree[k], "VideoEncoder") \notin Media1Encoders
    BY FilesAssumption DEF Says
  <2> QED
    BY <2>1, <2>2 DEF MediaList
<1>8. /\ "VideoEncoder" \in DOMAIN g <=> Says(tree[k], "VideoEncoder")
      /\ Says(tree[k], "VideoEncoder") => g["VideoEncoder"] = First(tree[k], "VideoEncoder")
  <2>1. "VideoEncoder" \in LookedUp
    BY <1>4, VideoOfProfile
  <2> QED
    BY <1>7, <2>1
<1> HIDE DEF g
<1>9. GetProfile1(tree, token).shows = g
  BY <1>4, <1>5, AnswersAreAnswered
<1> QED
  BY <1>6, <1>8, <1>9

\* Of a profile that names each type once, Media2 says the same alone and in the list;
\* GetSnapshotUri says what follows from it, and Media, of the same profile, the same of
\* video.
LEMMA ListAgrees ==
  ASSUME Good(profiles), NEW i \in DOMAIN profiles, NEW token, token = profiles[i].token,
         Unrepeated(profiles[FindProfile(token)])
  PROVE  LET listed == GetProfiles2({"All"}, 0).shows[i].configs
             video == {"VideoSource", "VideoEncoder"} IN
         /\ GetProfile2(token) = Answers(listed)
         /\ Answered(GetSnapshotUri(token)) <=> video \subseteq DOMAIN listed
         /\ \A t \in video \cap DOMAIN listed :
              /\ t \in DOMAIN GetProfile1(profiles, token).shows
              /\ GetProfile1(profiles, token).shows[t] = listed[t]
<1> DEFINE listed == GetProfiles2({"All"}, 0).shows[i].configs
           video == {"VideoSource", "VideoEncoder"}
<1>1. PICK k : k = FindProfile(token)
  OBVIOUS
<1>2. /\ k \in DOMAIN profiles /\ k # 0
      /\ token \in ProfileTokens
      /\ IndexIn(profiles, token) = k
  BY <1>1, ListedIsFound DEF Good
<1>3. PICK p : p = profiles[k]
  OBVIOUS
<1>4. p \in Profile /\ Unrepeated(p)
  BY <1>1, <1>2, <1>3, TreeBasics DEF Good
<1>5. Filtered(p, {"All"}) = Unfiltered(p)
  <2>1. \A t \in ConfigTypes : First(p, t) = Last_(p, t)
    BY <1>4, FirstIsLast
  <2>2. \A t : {t, "All"} \cap {"All"} # {}
    OBVIOUS
  <2>3. Filtered(p, {"All"}) = [t \in ConfigTypes |-> Last_(p, t)]
    BY <2>2, Zenon DEF Filtered
  <2> QED
    BY <2>1, <2>3 DEF Unfiltered
<1> DEFINE D == Described2(Unfiltered(p))
           f == [t \in D |-> IF t \in LookedUp THEN Unfiltered(p)[t] ELSE HardCoded[t]]
<1>6. ProfileToSoap(Unfiltered(p)) = Answers(f)
  <2>1. AllListed(Unfiltered(p))
    BY <1>2, <1>3, TokensOfProfile
  <2> QED
    BY <2>1, ProfileToSoapAnswers
<1>7. listed = f
  <2>1. listed = ProfileToSoap(Filtered(p, {"All"})).shows
    BY <1>1, <1>3, ListTokens
  <2> HIDE DEF f, listed
  <2>2. ProfileToSoap(Filtered(p, {"All"})).shows = f
    BY <1>5, <1>6, AnswersAreAnswered
  <2> QED
    BY <2>1, <2>2
<1>8. GetProfile2(token) = Answers(f) /\ GetProfile1(profiles, token) = MediaProfile(p)
  <2>1. CleanedName(token) = profiles[i].token
    BY <1>2, CleanedTokens
  <2> HIDE DEF f
  <2> QED
    BY <1>1, <1>2, <1>3, <1>6, <2>1, SingleAnswers, CopyAnswers
<1>9. ASSUME NEW t \in video
      PROVE  /\ t \in DOMAIN f <=> Says(p, t)
             /\ Says(p, t) => f[t] = First(p, t)
  BY <1>2, <1>3, VideoOfProfile
<1>10. ASSUME NEW t \in video, t \in DOMAIN f
       PROVE  /\ t \in DOMAIN GetProfile1(profiles, token).shows
              /\ GetProfile1(profiles, token).shows[t] = f[t]
  <2> DEFINE g == [u \in {v \in LookedUp : First(p, v) \in MediaList(v)} |-> First(p, u)]
  <2>1. MediaProfile(p) = Answers(g)
    BY <1>2, <1>3, MediaProfileAnswers
  <2>2. t \in LookedUp /\ First(p, t) \in MediaList(t) /\ f[t] = First(p, t)
    <3> HIDE DEF f
    <3>1. Says(p, t) /\ f[t] = First(p, t)
      BY <1>9, <1>10
    <3> QED
      BY <1>2, <1>3, <3>1, VideoOfProfile
  <2>3. t \in DOMAIN g /\ g[t] = First(p, t)
    BY <2>2
  <2> HIDE DEF g, f
  <2>4. GetProfile1(profiles, token).shows = g
    BY <1>8, <2>1, AnswersAreAnswered
  <2> QED
    BY <2>2, <2>3, <2>4
<1> HIDE DEF f
<1>11. Answered(GetSnapshotUri(token)) <=> video \subseteq DOMAIN f
  <2>1. Answered(GetSnapshotUri(token)) <=> Says(p, "VideoSource") /\ Says(p, "VideoEncoder")
    BY <1>1, <1>2, <1>3, SnapshotAnswers, Zenon DEF Says
  <2> QED
    BY <1>9, <2>1
<1> HIDE DEF listed
<1> QED
  BY <1>7, <1>8, <1>10, <1>11 DEF listed

-----------------------------------------------------------------------------
(* The use counts.                                                         *)

\* The elements of U, counted class by class, are as many as there are: k gives the class
\* of each, and n how many a class has.
SizesOf(n, U, L, k) == \A c \in L : n[c] = Cardinality({i \in U : k[i] = c})
Numbered(n, L) == UNION {{c} \X (1..n[c]) : c \in L}

LEMMA CountedByClass ==
  ASSUME NEW U, IsFiniteSet(U), NEW L, NEW k \in [U -> L], NEW n, SizesOf(n, U, L, k)
  PROVE  Cardinality(Numbered(n, L)) = Cardinality(U)
<1> USE DEF SizesOf
<1> DEFINE class(c) == {i \in U : k[i] = c}
           P == UNION {{c} \X (1..n[c]) : c \in L}
           b == [c \in L |-> CHOOSE f \in Bijection(1..n[c], class(c)) : TRUE]
           F == [x \in P |-> b[x[1]][x[2]]]
<1>1. ASSUME NEW c \in L PROVE b[c] \in Bijection(1..n[c], class(c))
  <2>1. IsFiniteSet(class(c))
    BY FS_Subset
  <2>2. Bijection(1..n[c], class(c)) # {}
    BY <2>1, FS_CardinalityType DEF ExistsBijection
  <2> QED
    BY <2>2
<1>2. ASSUME NEW x \in P PROVE x[1] \in L /\ x[2] \in 1..n[x[1]] /\ x = <<x[1], x[2]>>
  OBVIOUS
<1>3. ASSUME NEW c \in L, NEW j \in 1..n[c] PROVE <<c, j>> \in P
  OBVIOUS
<1>4. ASSUME NEW c \in L
      PROVE  /\ \A j \in 1..n[c] : b[c][j] \in U /\ k[b[c][j]] = c
             /\ \A j, m \in 1..n[c] : b[c][j] = b[c][m] => j = m
             /\ \A i \in class(c) : \E j \in 1..n[c] : b[c][j] = i
  <2> HIDE DEF b
  <2>1. PICK g, S, T : g = b[c] /\ S = 1..n[c] /\ T = class(c)
    OBVIOUS
  <2>2. g \in Bijection(S, T)
    BY <1>1, <2>1
  <2>3. /\ g \in [S -> T] /\ g \in Surjection(S, T)
        /\ \A j, m \in S : g[j] = g[m] => j = m
    BY <2>2, Fun_BijectionProperties
  <2>4. \A i \in T : \E j \in S : g[j] = i
    BY <2>3, Fun_SurjectionProperties
  <2>5. \A i \in T : i \in U /\ k[i] = c
    BY <2>1
  <2> HIDE DEF class
  <2>6. \A j \in S : g[j] \in U /\ k[g[j]] = c
    BY <2>3, <2>5
  <2> QED
    BY <2>1, <2>3, <2>4, <2>6
<1> HIDE DEF P, b
<1>5. \A x \in P : F[x] = b[x[1]][x[2]]
  OBVIOUS
<1>6. F \in [P -> U]
  BY <1>2, <1>4
<1> HIDE DEF F
<1>7. ASSUME NEW x \in P, NEW y \in P, F[x] = F[y] PROVE x = y
  <2>1. k[F[x]] = x[1] /\ k[F[y]] = y[1]
    BY <1>2, <1>4, <1>5
  <2>2. x[1] = y[1] /\ x[2] = y[2]
    BY <1>2, <1>4, <1>5, <1>7, <2>1
  <2> QED
    BY <1>2, <2>2
<1>8. ASSUME NEW i \in U PROVE \E x \in P : F[x] = i
  <2>1. k[i] \in L /\ i \in class(k[i])
    OBVIOUS
  <2>2. PICK j \in 1..n[k[i]] : b[k[i]][j] = i
    BY <1>4, <2>1
  <2>3. <<k[i], j>> \in P /\ F[<<k[i], j>>] = i
    BY <1>3, <1>5, <2>1, <2>2
  <2> QED
    BY <2>3
<1>9. ExistsBijection(P, U)
  <2>1. F \in Bijection(P, U)
    BY <1>6, <1>7, <1>8, Fun_IsBij, Fun_IsSurj
  <2> QED
    BY <2>1 DEF ExistsBijection
<1>10. ExistsBijection(U, P)
  BY <1>9, Fun_ExistsBijSymmetric
<1> QED
  BY <1>10, FS_Bijection DEF P, Numbered

\* In a tree whose tokens are distinct each profile is described as itself.
LEMMA ListedWithPTZ ==
  ASSUME Good(profiles), Fresh(profiles), \A i \in DOMAIN profiles : Unrepeated(profiles[i])
  PROVE  LET listed == GetProfiles2({"All"}, 0).shows IN
         /\ DOMAIN listed = DOMAIN profiles
         /\ \A i \in DOMAIN profiles :
              "PTZ" \in DOMAIN listed[i].configs <=> First(profiles[i], "PTZ") \in Configurations["PTZ"]
<1> DEFINE shown == [i \in DOMAIN profiles |->
             [token |-> profiles[i].token,
              configs |-> ProfileToSoap(Filtered(profiles[FindProfile(profiles[i].token)], {"All"})).shows]]
<1>1. GetProfiles2({"All"}, 0).shows = shown
  <2>1. GetProfiles2({"All"}, 0) = Answers(shown)
    BY ListAnswers
  <2> HIDE DEF shown
  <2> QED
    BY <2>1, AnswersAreAnswered
<1>2. ASSUME NEW i \in DOMAIN profiles
      PROVE  "PTZ" \in DOMAIN shown[i].configs <=> First(profiles[i], "PTZ") \in Configurations["PTZ"]
  <2>1. FindProfile(profiles[i].token) = i
    BY ListedIsFound DEF Fresh, Good
  <2>2. profiles[i] \in Profile /\ "PTZ" \in ConfigTypes /\ "PTZ" \in DOMAIN Configurations
    BY TreeBasics, ReadersAssumption, ProfilesAssumption DEF Good
  <2>3. shown[i].configs = ProfileToSoap(Filtered(profiles[i], {"All"})).shows
    BY <2>1
  <2> HIDE DEF shown
  <2> DEFINE D == Described2(Filtered(profiles[i], {"All"}))
             f == [t \in D |-> IF t \in LookedUp THEN Filtered(profiles[i], {"All"})[t] ELSE HardCoded[t]]
  <2>4. shown[i].configs = f
    <3>1. ProfileToSoap(Filtered(profiles[i], {"All"})) = Answers(f)
      BY TokensOfProfile, ProfileToSoapAnswers
    <3> HIDE DEF f
    <3> QED
      BY <2>3, <3>1, AnswersAreAnswered
  <2>5. "PTZ" \in DOMAIN f <=> Says(profiles[i], "PTZ")
    <3>1. First(profiles[i], "PTZ") = Last_(profiles[i], "PTZ")
      BY <2>2, FirstIsLast
    <3>2. Filtered(profiles[i], {"All"})["PTZ"] = First(profiles[i], "PTZ")
      <4>1. {"PTZ", "All"} \cap {"All"} # {}
        OBVIOUS
      <4> QED
        BY <2>2, <3>1, <4>1, Zenon DEF Filtered
    <3>3. "PTZ" \in DOMAIN HardCoded
      BY DEF HardCoded
    <3>4. "PTZ" \in D <=> Says(profiles[i], "PTZ")
      BY <2>2, <3>2, <3>3, Zenon DEF Described2, Says
    <3> QED
      BY <3>4
  <2>6. Says(profiles[i], "PTZ") <=> First(profiles[i], "PTZ") \in Configurations["PTZ"]
    <3>1. Says(profiles[i], "PTZ") => First(profiles[i], "PTZ") \in List("PTZ")
      BY <2>2, TokensOfProfile DEF Unfiltered, AllListed, Says
    <3>2. First(profiles[i], "PTZ") \in Configurations["PTZ"] => Says(profiles[i], "PTZ")
      BY FilesAssumption DEF Says
    <3> QED
      BY <2>2, <3>1, <3>2 DEF List
  <2> QED
    BY <2>4, <2>5, <2>6
<1>3. DOMAIN shown = DOMAIN profiles
  OBVIOUS
<1> HIDE DEF shown
<1> QED
  BY <1>1, <1>2, <1>3

LEMMA IInvCounted == IInv => UseCountsAddUp
<1> SUFFICES ASSUME IInv, Receives, ~deleted, \A i \in DOMAIN profiles : Unrepeated(profiles[i])
             PROVE  LET listed == GetProfiles2({"All"}, 0).shows IN
                    TotalUses(GetConfigurations.shows)
                      = Cardinality({i \in DOMAIN listed : "PTZ" \in DOMAIN listed[i].configs})
  BY DEF UseCountsAddUp
<1>1. Good(profiles) /\ Fresh(profiles) /\ profiles \in Seq(Profile)
  BY DEF IInv, Receives, Good
<1>2. "PTZ" \in DOMAIN Configurations
  BY ReadersAssumption
<1> DEFINE listed == GetProfiles2({"All"}, 0).shows
           U == {i \in DOMAIN profiles : First(profiles[i], "PTZ") \in Configurations["PTZ"]}
           L == GetConfigurations.shows
           k == [i \in U |-> Described(First(profiles[i], "PTZ"))]
           n == [c \in L |-> c.useCount]
<1>3. {i \in DOMAIN listed : "PTZ" \in DOMAIN listed[i].configs} = U
  <2> HIDE DEF listed
  <2> QED
    BY <1>1, ListedWithPTZ DEF listed
<1>4. IsFiniteSet(U)
  <2>1. DOMAIN profiles = 1..Len(profiles) /\ Len(profiles) \in Nat
    BY <1>1, LenProperties
  <2>2. IsFiniteSet(1..Len(profiles))
    BY <2>1, FS_Interval
  <2> QED
    BY <2>1, <2>2, FS_Subset
<1>5. L = {Described(c) : c \in Configurations["PTZ"]}
  <2>1. GetConfigurations = Answers({Described(c) : c \in Configurations["PTZ"]})
    BY <1>2 DEF GetConfigurations, List
  <2> QED
    BY <2>1, AnswersAreAnswered
<1> HIDE DEF L, listed
<1>6. k \in [U -> L]
  BY <1>5
<1>7. SizesOf(n, U, L, k)
  <2> SUFFICES ASSUME NEW c \in L PROVE n[c] = Cardinality({i \in U : k[i] = c})
    BY DEF SizesOf
  <2>1. PICK token \in Configurations["PTZ"] : c = Described(token)
    BY <1>5
  <2>2. \A i \in U : k[i] = c <=> First(profiles[i], "PTZ") = token
    BY <2>1 DEF Described
  <2>3. {i \in U : k[i] = c} = {i \in DOMAIN profiles : First(profiles[i], "PTZ") = token}
    BY <2>1, <2>2
  <2>4. n[c] = GetUseCount(token, "PTZ")
    BY <2>1 DEF Described
  <2> HIDE DEF U, k, n
  <2> QED
    BY <2>3, <2>4 DEF GetUseCount
<1>8. TotalUses(L) = Cardinality(Numbered(n, L))
  <2>1. \A c \in L : n[c] = c.useCount
    OBVIOUS
  <2>2. \A c \in L : {c} \X (1..n[c]) = {c} \X (1..c.useCount)
    BY <2>1
  <2> HIDE DEF n
  <2>3. {{c} \X (1..n[c]) : c \in L} = {{c} \X (1..c.useCount) : c \in L}
    BY <2>2
  <2> QED
    BY <2>3 DEF TotalUses, Numbered
<1> HIDE DEF U, k, n
<1>9. Cardinality(Numbered(n, L)) = Cardinality(U)
  BY <1>4, <1>6, <1>7, CountedByClass
<1> QED
  BY <1>3, <1>8, <1>9 DEF L, listed

\* While no profile repeats a type and none was deleted, the use counts of the PTZ
\* configurations add up to the profiles that Media2 shows with PTZ.
THEOREM UseCountsAlwaysAddUp == Spec => []UseCountsAddUp
BY SpecIInv, IInvCounted, PTL

=============================================================================
