---------------------------- MODULE SessionProofs ----------------------------
(***************************************************************************)
(* Proofs about SessionLife, for any connections, addresses, products,     *)
(* keys, accounts and limits.                                              *)
(***************************************************************************)
EXTENDS SessionLife, FiniteSetTheorems, WellFoundedInduction, TLAPS

-----------------------------------------------------------------------------
(* The key registry.                                                       *)

(* Where a task holds no key.                                              *)
Keyless == {"free", "accepted", "aux", "connected", "versioning", "unnamed", "draining"}

KeyType ==
  /\ pc \in [Conn -> PC]
  /\ active \subseteq Key /\ cooling \subseteq Key
  /\ want \in [Conn -> Seq(Key)] /\ held \in [Conn -> Seq(Key)]

(* What a task's position says about its keys: none, or a part of those it *)
(* listed, in order; and it never holds a key twice.                       *)
KeyPhase ==
  \A c \in Conn :
    /\ pc[c] \in Keyless => held[c] = <<>>
    /\ pc[c] = "claiming" =>
         /\ Len(held[c]) <= Len(want[c])
         /\ \A j \in 1 .. Len(held[c]) : held[c][j] = want[c][j]
    /\ \A i, j \in 1 .. Len(held[c]) : held[c][i] = held[c][j] => i = j

KeyInv == KeyType /\ KeyPhase /\ KeysExact

(* A task before SID_AUTH_CHECK, or past cleanup, holds no key.            *)
LEMMA KeylessHolds ==
  ASSUME KeyInv, NEW c \in Conn, pc[c] \in Keyless
  PROVE  held[c] = <<>>
BY DEF KeyInv, KeyType, KeyPhase

(* A step of c's task that leaves the keys alone.                          *)
LEMMA KeyQuiet ==
  ASSUME KeyInv, NEW c \in Conn, NEW to \in PC,
         pc' = [pc EXCEPT ![c] = to], UNCHANGED keys,
         to # "claiming", to \in Keyless => held[c] = <<>>
  PROVE  KeyInv'
<1> USE DEF keys
<1>1. KeyType'
  BY DEF KeyInv, KeyType
<1>2. KeyPhase'
  BY DEF KeyInv, KeyPhase, KeyType
<1>3. KeysExact'
  BY DEF KeyInv, KeysExact, Holds
<1> QED BY <1>1, <1>2, <1>3 DEF KeyInv

(* A step that moves no task and leaves the keys alone.                    *)
LEMMA KeyStutter ==
  ASSUME KeyInv, UNCHANGED <<pc, keys>>
  PROVE  KeyInv'
BY DEF KeyInv, KeyType, KeyPhase, KeysExact, Holds, keys

(* KeyRegistry::claim of the next listed key, or the refusal when it is in *)
(* use, keeps the registry exact.                                          *)
LEMMA KeyClaimed ==
  ASSUME KeyInv, NEW c \in Conn, ClaimKey(c)
  PROVE  KeyInv'
<1>1. CASE held[c] = want[c]
  <2>1. pc' = [pc EXCEPT ![c] = "authenticating"] /\ UNCHANGED keys
    BY <1>1 DEF ClaimKey, keys
  <2> QED BY <2>1, KeyQuiet DEF PC, Idle, Keyless
<1>2. CASE held[c] # want[c] /\ NextKey(c) \in active \cup cooling
  <2>1. pc' = [pc EXCEPT ![c] = "refusing"] /\ UNCHANGED keys
    BY <1>2 DEF ClaimKey, keys
  <2> QED BY <2>1, KeyQuiet DEF PC, Idle, Keyless
<1>3. CASE held[c] # want[c] /\ NextKey(c) \notin active \cup cooling
  <2> DEFINE k == NextKey(c)
  <2>1. /\ active' = active \cup {k}
        /\ held' = [held EXCEPT ![c] = Append(@, k)]
        /\ UNCHANGED <<pc, cooling, want>>
    BY <1>3 DEF ClaimKey
  <2>2. /\ held[c] \in Seq(Key) /\ want[c] \in Seq(Key)
        /\ Len(held[c]) <= Len(want[c])
        /\ \A j \in 1 .. Len(held[c]) : held[c][j] = want[c][j]
        /\ pc[c] = "claiming"
    BY DEF KeyInv, KeyType, KeyPhase, ClaimKey
  <2>3. Len(held[c]) # Len(want[c])
    BY <1>3, <2>2
  <2>4. k \in Key /\ k = want[c][Len(held[c]) + 1]
    BY <2>2, <2>3 DEF NextKey
  <2>5. \A d \in Conn : ~Holds(d, k)
    BY <1>3, <2>4 DEF KeyInv, KeysExact
  <2> HIDE DEF k
  <2>6. KeyType'
    BY <2>1, <2>2, <2>4 DEF KeyInv, KeyType
  <2>7. /\ held'[c] = Append(held[c], k)
        /\ \A d \in Conn \ {c} : held'[d] = held[d]
        /\ Len(held'[c]) = Len(held[c]) + 1
        /\ \A j \in 1 .. Len(held[c]) : held'[c][j] = held[c][j]
        /\ held'[c][Len(held[c]) + 1] = k
    BY <2>1, <2>2, <2>4 DEF KeyInv, KeyType
  <2>8. KeyPhase'
    <3> SUFFICES ASSUME NEW d \in Conn
                 PROVE  /\ pc'[d] \in Keyless => held'[d] = <<>>
                        /\ pc'[d] = "claiming" =>
                             /\ Len(held'[d]) <= Len(want'[d])
                             /\ \A j \in 1 .. Len(held'[d]) : held'[d][j] = want'[d][j]
                        /\ \A i, j \in 1 .. Len(held'[d]) :
                             held'[d][i] = held'[d][j] => i = j
      BY DEF KeyPhase
    <3>1. CASE d # c
      BY <3>1, <2>1, <2>7 DEF KeyInv, KeyPhase
    <3>2. CASE d = c
      <4>1. \A j \in 1 .. Len(held[c]) : held[c][j] # k
        BY <2>5 DEF Holds
      <4>2. Len(held[c]) \in Nat /\ Len(want[c]) \in Nat
        BY <2>2
      <4>3. \A i, j \in 1 .. Len(held[c]) : held[c][i] = held[c][j] => i = j
        BY DEF KeyInv, KeyPhase
      <4>4. \A i, j \in 1 .. Len(held[c]) + 1 : held'[c][i] = held'[c][j] => i = j
        BY <4>1, <4>2, <4>3, <2>7
      <4>5. Len(held[c]) + 1 <= Len(want[c])
        BY <4>2, <2>2, <2>3
      <4>6. \A j \in 1 .. Len(held[c]) + 1 : held'[c][j] = want[c][j]
        BY <4>2, <2>2, <2>4, <2>7
      <4> QED BY <3>2, <4>4, <4>5, <4>6, <2>1, <2>2, <2>7 DEF Keyless
    <3> QED BY <3>1, <3>2
  <2>9. \A d \in Conn, q \in Key : Holds(d, q)' <=> Holds(d, q) \/ (d = c /\ q = k)
    <3> SUFFICES ASSUME NEW d \in Conn, NEW q \in Key
                 PROVE  (\E j \in 1 .. Len(held'[d]) : held'[d][j] = q)
                          <=> (\E j \in 1 .. Len(held[d]) : held[d][j] = q) \/ (d = c /\ q = k)
      BY DEF Holds
    <3>1. CASE d # c
      BY <3>1, <2>7
    <3>2. CASE d = c
      <4>1. Len(held[c]) \in Nat
        BY <2>2
      <4> QED BY <3>2, <4>1, <2>7
    <3> QED BY <3>1, <3>2
  <2>10. KeysExact'
    BY <1>3, <2>1, <2>4, <2>5, <2>9 DEF KeyInv, KeysExact, k
  <2> QED BY <2>6, <2>8, <2>10 DEF KeyInv
<1> QED BY <1>1, <1>2, <1>3

(* One key given back, at a refusal or in cleanup.                         *)
LEMMA KeyReleased ==
  ASSUME KeyInv, NEW c \in Conn, held[c] # <<>>, pc[c] # "claiming",
         ReleaseKey(c), UNCHANGED <<pc, want>>
  PROVE  KeyInv'
<1> DEFINE k == Head(held[c])
<1>1. /\ active' = active \ {k}
      /\ cooling' = IF k \in active THEN cooling \cup {k} ELSE cooling
      /\ held' = [held EXCEPT ![c] = Tail(@)]
  BY DEF ReleaseKey
<1>2. held[c] \in Seq(Key) /\ Len(held[c]) \in Nat \ {0} /\ k \in Key /\ k = held[c][1]
  BY DEF KeyInv, KeyType
<1> HIDE DEF k
<1>3. /\ held'[c] = Tail(held[c]) /\ held'[c] \in Seq(Key)
      /\ Len(held'[c]) = Len(held[c]) - 1
      /\ \A j \in 1 .. Len(held[c]) - 1 : held'[c][j] = held[c][j + 1]
      /\ \A d \in Conn \ {c} : held'[d] = held[d]
  BY <1>1, <1>2 DEF KeyInv, KeyType
<1>4. KeyType'
  BY <1>1, <1>2, <1>3 DEF KeyInv, KeyType
<1>5. \A i, j \in 1 .. Len(held[c]) : held[c][i] = held[c][j] => i = j
  BY DEF KeyInv, KeyPhase
<1>6. \A i, j \in 1 .. Len(held[c]) - 1 : held'[c][i] = held'[c][j] => i = j
  BY <1>2, <1>3, <1>5
<1>7. KeyPhase'
  <2> SUFFICES ASSUME NEW d \in Conn
               PROVE  /\ pc'[d] \in Keyless => held'[d] = <<>>
                      /\ pc'[d] = "claiming" =>
                           /\ Len(held'[d]) <= Len(want'[d])
                           /\ \A j \in 1 .. Len(held'[d]) : held'[d][j] = want'[d][j]
                      /\ \A i, j \in 1 .. Len(held'[d]) :
                           held'[d][i] = held'[d][j] => i = j
    BY DEF KeyPhase
  <2>1. CASE d # c
    BY <2>1, <1>3 DEF KeyInv, KeyPhase
  <2>2. CASE d = c
    <3>1. pc[c] \notin Keyless
      BY DEF KeyInv, KeyPhase
    <3> QED BY <2>2, <3>1, <1>3, <1>6
  <2> QED BY <2>1, <2>2
<1>8. \A d \in Conn, q \in Key : Holds(d, q)' <=> Holds(d, q) /\ ~(d = c /\ q = k)
  <2> SUFFICES ASSUME NEW d \in Conn, NEW q \in Key
               PROVE  (\E j \in 1 .. Len(held'[d]) : held'[d][j] = q)
                        <=> (\E j \in 1 .. Len(held[d]) : held[d][j] = q) /\ ~(d = c /\ q = k)
    BY DEF Holds
  <2>1. CASE d # c
    BY <2>1, <1>3
  <2>2. CASE d = c
    <3>1. ASSUME NEW j \in 1 .. Len(held[c]) - 1, held'[c][j] = q
          PROVE  (\E i \in 1 .. Len(held[c]) : held[c][i] = q) /\ q # k
      <4>1. j + 1 \in 1 .. Len(held[c]) /\ 1 \in 1 .. Len(held[c]) /\ j + 1 # 1
        BY <1>2
      <4>2. held[c][j + 1] = q
        BY <3>1, <1>3
      <4> QED BY <4>1, <4>2, <1>2, <1>5
    <3>2. ASSUME NEW i \in 1 .. Len(held[c]), held[c][i] = q, q # k
          PROVE  \E j \in 1 .. Len(held[c]) - 1 : held'[c][j] = q
      <4>1. i # 1
        BY <3>2, <1>2
      <4>2. i - 1 \in 1 .. Len(held[c]) - 1 /\ (i - 1) + 1 = i
        BY <4>1, <1>2
      <4> QED BY <4>2, <3>2, <1>3
    <3> QED BY <2>2, <3>1, <3>2, <1>3
  <2> QED BY <2>1, <2>2
<1>9. Holds(c, k)
  BY <1>2 DEF Holds
<1>10. KeysExact'
  BY <1>1, <1>2, <1>8, <1>9 DEF KeyInv, KeysExact
<1> QED BY <1>4, <1>7, <1>10 DEF KeyInv

(* The steps of a task that leave every key where it is.                   *)
KeyNeutral(c) ==
  \/ \E i \in IP : Accept(c, i)
  \/ \E k \in Class \ Product : Admit(c, k)
  \/ Refuse(c) \/ AuxEnds(c)
  \/ \E p \in Product : AuthInfo(c, p)
  \/ \E p \in Product \cup {None} : StartVersioning(c, p)
  \/ VersionWithoutKeys(c)
  \/ \E a \in Account : Logon(c, a)
  \/ ClaimName(c) \/ Register(c) \/ EnterChat(c) \/ EnteredAsBefore(c)
  \/ AdoptRealmCharacter(c) \/ ReleaseOldName(c)
  \/ Close(c) \/ Killed(c) \/ CleanupDirectory(c)

(* None of them claims or releases a key.                                  *)
LEMMA KeyOthers ==
  ASSUME KeyInv, NEW c \in Conn, KeyNeutral(c)
  PROVE  KeyInv'
<1>1. UNCHANGED keys
  BY DEF KeyNeutral, Accept, Admit, Refuse, AuxEnds, AuthInfo, StartVersioning,
         VersionWithoutKeys, Logon, ClaimName, Register, EnterChat, EnteredAsBefore,
         AdoptRealmCharacter, ReleaseOldName, Close, Killed, CleanupDirectory
<1>2. PICK to \in PC : /\ pc' = [pc EXCEPT ![c] = to] /\ to # "claiming"
                       /\ to \in Keyless => pc[c] \in Keyless \/ held[c] = <<>>
  BY DEF Goto, PC, Idle, Keyless,
         KeyNeutral, Accept, Admit, Refuse, AuxEnds, AuthInfo, StartVersioning,
         VersionWithoutKeys, Logon, ClaimName, Register, EnterChat, EnteredAsBefore,
         AdoptRealmCharacter, ReleaseOldName, Close, Killed, CleanupDirectory
<1>3. to \in Keyless => held[c] = <<>>
  BY <1>2, KeylessHolds
<1> QED BY <1>1, <1>2, <1>3, KeyQuiet

(* Listing the keys, and the end of the connection, which forgets them.    *)
KeyListing(c) == (\E ks \in KeyLists : AuthCheck(c, ks)) \/ Release(c)

(* SID_AUTH_CHECK lists keys before it claims any, and a connection ends   *)
(* with none held, so neither disturbs the registry.                       *)
LEMMA KeyListed ==
  ASSUME KeyInv, NEW c \in Conn, KeyListing(c)
  PROVE  KeyInv'
<1>1. /\ pc[c] \in Keyless
      /\ \E to \in {"claiming", "free"} : pc' = [pc EXCEPT ![c] = to]
      /\ \E ks \in KeyLists \cup {<<>>} : want' = [want EXCEPT ![c] = ks]
      /\ UNCHANGED <<active, cooling, held>>
  BY DEF KeyListing, AuthCheck, Release, Goto, Keyless
<1>2. KeyLists \cup {<<>>} \subseteq Seq(Key) /\ held[c] = <<>>
  <2>1. KeyLists \subseteq Seq(Key)
    BY SessionLifeAssumption, Zenon DEF SessionLifeAssumption
  <2>2. <<>> \in Seq(Key)
    OBVIOUS
  <2>3. held[c] = <<>>
    BY <1>1, KeylessHolds
  <2> QED BY <2>1, <2>2, <2>3
<1>3. KeyType'
  BY <1>1, <1>2 DEF KeyInv, KeyType, PC
<1>4. KeyPhase'
  BY <1>1, <1>2 DEF KeyInv, KeyPhase, KeyType
<1>5. KeysExact'
  BY <1>1 DEF KeyInv, KeysExact, Holds
<1> QED BY <1>3, <1>4, <1>5 DEF KeyInv

(* A staff command.                                                        *)
Staff ==
  StaffIpBan \/ BanIp \/ Disconnect \/ Lift \/ \E a \in Account : StaffTagBan(a)

(* The steps of the system, grouped as the proofs about keys need them.    *)
LEMMA KeySteps ==
  ASSUME Next
  PROVE  \/ \E c \in Conn : \/ KeyNeutral(c) \/ KeyListing(c)
                            \/ ClaimKey(c) \/ RefuseKeys(c) \/ CleanupKeys(c)
         \/ \E k \in Key : CooldownPasses(k)
         \/ Staff
BY DEF Next, Handler, KeyNeutral, KeyListing, Staff

(* Every step of the system preserves the invariant.                       *)
LEMMA KeyInductive == KeyInv /\ [Next]_vars => KeyInv'
<1> SUFFICES ASSUME KeyInv, [Next]_vars PROVE KeyInv'
  OBVIOUS
<1>1. ASSUME NEW c \in Conn, RefuseKeys(c) PROVE KeyInv'
  <2>1. CASE held[c] = <<>>
    <3>1. pc' = [pc EXCEPT ![c] = "authenticating"] /\ UNCHANGED keys
      BY <1>1, <2>1 DEF RefuseKeys
    <3> QED BY <3>1, KeyQuiet DEF PC, Idle, Keyless
  <2>2. CASE held[c] # <<>>
    BY <1>1, <2>2, KeyReleased DEF RefuseKeys
  <2> QED BY <2>1, <2>2
<1>2. ASSUME NEW c \in Conn, CleanupKeys(c) PROVE KeyInv'
  BY <1>2, KeyReleased DEF CleanupKeys
<1>3. ASSUME NEW k \in Key, CooldownPasses(k) PROVE KeyInv'
  <2>1. cooling' = cooling \ {k} /\ UNCHANGED <<pc, active, want, held>>
    BY <1>3 DEF CooldownPasses
  <2>2. KeyType'
    BY <2>1 DEF KeyInv, KeyType
  <2>3. KeyPhase'
    BY <2>1 DEF KeyInv, KeyPhase
  <2>4. KeysExact'
    BY <2>1 DEF KeyInv, KeysExact, Holds
  <2> QED BY <2>2, <2>3, <2>4 DEF KeyInv
<1>4. ASSUME Staff PROVE KeyInv'
  <2>1. UNCHANGED <<pc, keys>>
    BY <1>4 DEF Staff, StaffIpBan, BanIp, Disconnect, Lift, StaffTagBan, StaffStep
  <2> QED BY <2>1, KeyStutter
<1>5. CASE UNCHANGED vars
  <2>1. UNCHANGED <<pc, keys>>
    BY <1>5 DEF vars
  <2> QED BY <2>1, KeyStutter
<1>6. ASSUME NEW c \in Conn,
             KeyNeutral(c) \/ KeyListing(c) \/ ClaimKey(c) \/ RefuseKeys(c) \/ CleanupKeys(c)
      PROVE  KeyInv'
  BY <1>1, <1>2, <1>6, KeyOthers, KeyListed, KeyClaimed
<1>7. CASE Next
  BY <1>3, <1>4, <1>6, <1>7, KeySteps
<1> QED BY <1>5, <1>7

(* Nobody holds a key when the server starts.                              *)
LEMMA KeyInitially == Init => KeyInv
BY DEF Init, KeyInv, KeyType, KeyPhase, KeysExact, Holds, PC, Idle

(* KeyRegistry: every key is active exactly while one session holds it.    *)
THEOREM KeysStayExact == Spec => []KeysExact
<1>1. Init => KeyInv
  BY KeyInitially
<1>2. KeyInv => KeysExact
  BY DEF KeyInv
<1> QED BY <1>1, <1>2, KeyInductive, PTL DEF Spec

-----------------------------------------------------------------------------
(* Display names and the directory.                                        *)

(* Before it logs on a session has no name; from registering on it has     *)
(* one, and an account behind it.                                          *)
Nameless == {"free", "accepted", "aux", "connected", "versioning", "claiming",
             "refusing", "authenticating"}

NameType ==
  /\ pc \in [Conn -> PC]
  /\ names \subseteq Name
  /\ name \in [Conn -> Name \cup {None}]
  /\ account \in [Conn -> Account \cup {None}]
  /\ directory \subseteq Name \X Conn

NamePhase ==
  \A c \in Conn :
    /\ pc[c] \in Nameless => name[c] = None
    /\ pc[c] \in {"registering", "online", "entering", "unnaming", "unnamed"} => name[c] # None
    /\ pc[c] \in {"naming", "registering", "online", "entering", "unnaming"} => account[c] # None

Listed == {"online", "entering", "closing"}

NameInv == NameType /\ NamePhase /\ DirectoryExact

(* What the proofs use of the named assumption: there are finitely many    *)
(* connections, and None is neither a name nor an account.                 *)
LEMMA NoneIsNoName == None \notin Name /\ None \notin Account /\ IsFiniteSet(Conn)
BY SessionLifeAssumption, Zenon DEF SessionLifeAssumption

(* A step that moves no task and changes no name or directory entry.       *)
LEMMA NameStutter ==
  ASSUME NameInv, UNCHANGED <<pc, naming>>
  PROVE  NameInv'
BY DEF NameInv, NameType, NamePhase, DirectoryExact, Named, naming

(* A step of a task without a name that stays without one.                 *)
LEMMA NamelessStep ==
  ASSUME NameInv, NEW c \in Conn, NEW to \in PC,
         pc' = [pc EXCEPT ![c] = to], UNCHANGED naming,
         name[c] = None, to \in Nameless \cup {"closing", "draining"}
  PROVE  NameInv'
<1> USE DEF naming
<1>1. NameType'
  BY DEF NameInv, NameType
<1>2. NamePhase'
  BY DEF NameInv, NameType, NamePhase, Nameless
<1>3. Named' = Named /\ c \notin Named
  BY DEF NameInv, NameType, Named
<1>4. \A d \in Named : pc'[d] = pc[d]
  BY <1>3 DEF NameInv, NameType, Named
<1>5. DirectoryExact'
  BY <1>3, <1>4 DEF NameInv, DirectoryExact
<1> QED BY <1>1, <1>2, <1>5 DEF NameInv

(* A step of a logged-in task that keeps its name and directory entry.     *)
LEMMA ListedStep ==
  ASSUME NameInv, NEW c \in Conn, NEW to \in Listed,
         pc' = [pc EXCEPT ![c] = to], UNCHANGED naming,
         pc[c] \in {"online", "entering"}
  PROVE  NameInv'
<1> USE DEF naming
<1>1. NameType'
  BY DEF NameInv, NameType, Listed, PC, Idle
<1>2. NamePhase'
  BY DEF NameInv, NameType, NamePhase, Nameless, Listed
<1>3. Named' = Named
  BY DEF NameInv, NameType, Named, Listed
<1>4. \A d \in Named : pc'[d] \in Listed <=> pc[d] \in Listed
  BY DEF NameInv, NameType, Named, Listed
<1>5. DirectoryExact'
  BY <1>3, <1>4 DEF NameInv, DirectoryExact, Listed
<1> QED BY <1>1, <1>2, <1>5 DEF NameInv

(* An accepted proof of a password gives the session an account, not yet a *)
(* name.                                                                   *)
LEMMA NameLogon ==
  ASSUME NameInv, NEW c \in Conn, NEW a \in Account, Logon(c, a)
  PROVE  NameInv'
<1>1. /\ pc[c] = "authenticating" /\ pc' = [pc EXCEPT ![c] = "naming"]
      /\ account' = [account EXCEPT ![c] = a] /\ UNCHANGED <<names, name, directory>>
  BY DEF Logon, Goto
<1>2. NameType'
  BY <1>1 DEF NameInv, NameType, PC
<1>3. NamePhase'
  BY <1>1, NoneIsNoName DEF NameInv, NameType, NamePhase, Nameless
<1>4. Named' = Named /\ c \notin Named
  BY <1>1 DEF NameInv, NameType, Named, NamePhase, Nameless
<1>5. \A d \in Named : pc'[d] = pc[d]
  BY <1>1, <1>4 DEF NameInv, NameType, Named
<1>6. DirectoryExact'
  BY <1>1, <1>4, <1>5 DEF NameInv, DirectoryExact
<1> QED BY <1>2, <1>3, <1>6 DEF NameInv

(* claim_name finds a suffix: fewer names are taken than there are         *)
(* connections, since the claiming session has none of them.               *)
LEMMA FreeSuffix ==
  ASSUME NameInv, NEW c \in Conn, c \notin Named, NEW b
  PROVE  \E n \in 1 .. Cardinality(Conn) : <<b, n>> \notin names
<1> DEFINE N == Cardinality(Conn)
<1>1. N \in Nat /\ IsFiniteSet(Conn)
  BY NoneIsNoName, FS_CardinalityType
<1>2. IsFiniteSet(Named) /\ Cardinality(Named) <= N - 1 /\ Cardinality(Named) \in Nat
  <2>1. Named \in SUBSET (Conn \ {c})
    BY DEF Named
  <2>2. IsFiniteSet(Conn \ {c}) /\ Cardinality(Conn \ {c}) = N - 1
    BY <1>1, FS_RemoveElement
  <2>3. IsFiniteSet(Named) /\ Cardinality(Named) <= Cardinality(Conn \ {c})
    BY <2>1, <2>2, FS_Subset
  <2> QED BY <2>2, <2>3, FS_CardinalityType
<1>3. IsFiniteSet(1 .. N) /\ Cardinality(1 .. N) = N
  BY <1>1, FS_Interval
<1> SUFFICES ASSUME \A n \in 1 .. N : <<b, n>> \in names
             PROVE  FALSE
  OBVIOUS
<1> DEFINE f == [n \in 1 .. N |-> CHOOSE d \in Named : name[d] = <<b, n>>]
<1>4. \A n \in 1 .. N : f[n] \in Named /\ name[f[n]] = <<b, n>>
  BY DEF NameInv, DirectoryExact
<1>5. f \in [1 .. N -> Named]
  BY <1>4
<1> HIDE DEF f, N
<1>6. PICK x, y \in 1 .. N : x # y /\ f[x] = f[y]
  BY <1>1, <1>2, <1>3, <1>5, FS_PigeonHole
<1>7. <<b, x>> = <<b, y>>
  BY <1>4, <1>6
<1> QED BY <1>6, <1>7

(* The suffix claim_name settles on is free, so the name is nobody else's. *)
LEMMA LowestFreeIsFree ==
  ASSUME NameInv, NEW c \in Conn, c \notin Named, NEW b \in Base
  PROVE  LowestFree(b) \in Name /\ LowestFree(b) \notin names
<1> DEFINE N == Cardinality(Conn)
           I == {n \in 1 .. N : <<b, n>> \notin names}
           P(x) == x \notin names /\ \A m \in 1 .. x[2] - 1 : <<b, m>> \in names
<1>1. N \in Nat
  BY NoneIsNoName, FS_CardinalityType
<1>2. I # {} /\ I \in SUBSET Nat
  BY <1>1, FreeSuffix
<1>3. PICK n \in I : \A m \in I : ~ (<<m, n>> \in OpToRel(<, Nat))
  BY <1>2, NatLessThanWellFounded, WFMin
<1>4. \A m \in I : n <= m
  <2> TAKE m \in I
  <2>1. ~ (<<m, n>> \in {ss \in Nat \X Nat : ss[1] < ss[2]})
    BY <1>3 DEF OpToRel
  <2> QED BY <1>2, <2>1
<1>5. <<b, n>> \in {b} \X (1 .. N) /\ P(<<b, n>>)
  BY <1>1, <1>4
<1>6. LowestFree(b) = CHOOSE x \in {b} \X (1 .. N) : P(x)
  BY DEF LowestFree
<1> HIDE DEF P, N, I
<1>7. LowestFree(b) \in {b} \X (1 .. N) /\ P(LowestFree(b))
  BY <1>5, <1>6
<1> QED BY <1>7 DEF P, N, Name

(* claim_name: the session gets a name no other session has, before it is  *)
(* in the directory.                                                       *)
LEMMA NameClaimed ==
  ASSUME NameInv, NEW c \in Conn, ClaimName(c)
  PROVE  NameInv'
<1>1. PICK b : /\ b = IF name[c] = None THEN account[c] ELSE Character[account[c]]
               /\ pc[c] = "naming" /\ pc' = [pc EXCEPT ![c] = "registering"]
               /\ names' = names \cup {LowestFree(b)}
               /\ name' = [name EXCEPT ![c] = LowestFree(b)]
               /\ UNCHANGED <<account, directory>>
  BY DEF ClaimName, Goto
<1>2. b \in Base /\ account[c] # None
  BY <1>1 DEF NameInv, NameType, NamePhase, Base
<1>3. c \notin Named
  BY <1>1 DEF Named
<1>4. PICK x : x = LowestFree(b) /\ x \in Name /\ x \notin names
  BY <1>2, <1>3, LowestFreeIsFree
<1>5. x # None
  BY <1>4, NoneIsNoName
<1>6. NameType'
  BY <1>1, <1>4 DEF NameInv, NameType, PC
<1>7. NamePhase'
  BY <1>1, <1>2, <1>4, <1>5 DEF NameInv, NameType, NamePhase, Nameless
<1>8. Named' = Named \cup {c}
  BY <1>1, <1>4, <1>5 DEF NameInv, NameType, Named
<1>9. name'[c] = x /\ pc'[c] = "registering"
      /\ \A d \in Named : name'[d] = name[d] /\ pc'[d] = pc[d]
  BY <1>1, <1>3, <1>4 DEF NameInv, NameType, Named
<1>10. DirectoryExact'
  BY <1>1, <1>3, <1>4, <1>8, <1>9 DEF NameInv, DirectoryExact
<1> QED BY <1>6, <1>7, <1>10 DEF NameInv

(* register_session replaces no other entry, and afterwards lists the      *)
(* session under its own name.                                             *)
LEMMA NameRegistered ==
  ASSUME NameInv, NEW c \in Conn, Register(c)
  PROVE  NameInv'
<1>1. /\ pc[c] = "registering" /\ pc' = [pc EXCEPT ![c] = "online"]
      /\ directory' = {e \in directory : e[1] # name[c]} \cup {<<name[c], c>>}
      /\ UNCHANGED <<names, name, account>>
  BY DEF Register, Goto
<1>2. name[c] # None /\ name[c] \in Name
  BY <1>1 DEF NameInv, NameType, NamePhase
<1>3. NameType'
  BY <1>1, <1>2 DEF NameInv, NameType, PC, Idle
<1>4. NamePhase'
  BY <1>1 DEF NameInv, NameType, NamePhase, Nameless
<1>5. Named' = Named /\ c \in Named /\ pc'[c] = "online"
      /\ \A d \in Named \ {c} : pc'[d] = pc[d]
  BY <1>1, <1>2 DEF NameInv, NameType, Named
<1>6. \A e \in directory : e[1] # name[c]
  BY <1>1, <1>5 DEF NameInv, DirectoryExact
<1>7. directory' = directory \cup {<<name[c], c>>}
  BY <1>1, <1>6
<1>8. DirectoryExact'
  BY <1>1, <1>5, <1>7 DEF NameInv, DirectoryExact
<1> QED BY <1>3, <1>4, <1>8 DEF NameInv

(* The entry a listed session removes is its own.                          *)
LEMMA Unlisted ==
  ASSUME NameInv, NEW c \in Conn, c \in Named
  PROVE  {e \in directory : e[1] # name[c]}
           = {<<name[d], d>> :
                d \in {x \in Named \ {c} : pc[x] \in {"online", "entering", "closing"}}}
BY DEF NameInv, DirectoryExact

(* unregister_session at a rename or in cleanup takes out the session's    *)
(* own entry while it still owns the name.                                 *)
LEMMA NameUnregistered ==
  ASSUME NameInv, NEW c \in Conn, pc[c] \in {"entering", "closing"}, name[c] # None,
         NEW to \in {"unnaming", "unnamed"}, pc[c] = "closing" => to = "unnamed",
         pc' = [pc EXCEPT ![c] = to], Unregister(c), UNCHANGED <<names, name, account>>
  PROVE  NameInv'
<1>1. directory' = {e \in directory : e[1] # name[c]}
  BY DEF Unregister
<1>2. NameType'
  BY <1>1 DEF NameInv, NameType, PC
<1>3. NamePhase'
  BY DEF NameInv, NameType, NamePhase, Nameless
<1>4. Named' = Named /\ c \in Named /\ pc'[c] \in {"unnaming", "unnamed"}
      /\ \A d \in Named \ {c} : pc'[d] = pc[d]
  BY DEF NameInv, NameType, Named
<1>5. directory'
        = {<<name[d], d>> : d \in {x \in Named \ {c} : pc[x] \in {"online", "entering", "closing"}}}
  BY <1>1, <1>4, Unlisted
<1>6. DirectoryExact'
  BY <1>4, <1>5 DEF NameInv, DirectoryExact
<1> QED BY <1>2, <1>3, <1>6 DEF NameInv

(* release_name frees a name nobody else has and no entry is listed under. *)
LEMMA NameReleased ==
  ASSUME NameInv, NEW c \in Conn, NEW to \in {"naming", "draining"},
         pc[c] = IF to = "naming" THEN "unnaming" ELSE "unnamed",
         pc' = [pc EXCEPT ![c] = to], names' = names \ {name[c]},
         UNCHANGED <<name, account, directory>>
  PROVE  NameInv'
<1>1. NameType'
  BY DEF NameInv, NameType, PC
<1>2. NamePhase'
  BY DEF NameInv, NameType, NamePhase, Nameless
<1>3. Named' = Named \ {c} /\ c \in Named
      /\ \A d \in Named \ {c} : pc'[d] = pc[d]
  BY DEF NameInv, NameType, NamePhase, Named
<1>4. \A d \in Named \ {c} : name[d] # name[c]
  BY <1>3 DEF NameInv, DirectoryExact
<1>5. names' = {name[d] : d \in Named \ {c}}
  BY <1>3, <1>4 DEF NameInv, DirectoryExact
<1>6. DirectoryExact'
  BY <1>3, <1>5 DEF NameInv, DirectoryExact
<1> QED BY <1>1, <1>2, <1>6 DEF NameInv

(* The end of a connection forgets a name that was given back before.      *)
LEMMA NameForgotten ==
  ASSUME NameInv, NEW c \in Conn, Release(c)
  PROVE  NameInv'
<1>1. /\ pc[c] = "draining" /\ pc' = [pc EXCEPT ![c] = "free"]
      /\ name' = [name EXCEPT ![c] = None] /\ account' = [account EXCEPT ![c] = None]
      /\ UNCHANGED <<names, directory>>
  BY DEF Release, Goto
<1>2. NameType'
  BY <1>1 DEF NameInv, NameType, PC
<1>3. NamePhase'
  BY <1>1 DEF NameInv, NameType, NamePhase, Nameless
<1>4. Named' = Named /\ c \notin Named
  BY <1>1 DEF NameInv, NameType, Named
<1>5. \A d \in Named : pc'[d] = pc[d] /\ name'[d] = name[d]
  BY <1>1, <1>4 DEF NameInv, NameType, Named
<1>6. DirectoryExact'
  BY <1>1, <1>4, <1>5 DEF NameInv, DirectoryExact
<1> QED BY <1>2, <1>3, <1>6 DEF NameInv

(* Cleanup of a session removes its directory entry and then its name; one *)
(* that never logged on has neither.                                       *)
LEMMA NameCleanup ==
  ASSUME NameInv, NEW c \in Conn, CleanupDirectory(c)
  PROVE  NameInv'
<1>1. CASE pc[c] = "closing" /\ name[c] = None
  <2>1. /\ pc' = [pc EXCEPT ![c] = "draining"]
        /\ directory' = {e \in directory : e[1] # None}
        /\ UNCHANGED <<names, name, account>>
    BY <1>1 DEF CleanupDirectory, Goto, Unregister
  <2>2. \A e \in directory : e[1] # None
    BY NoneIsNoName DEF NameInv, NameType
  <2>3. UNCHANGED naming
    BY <2>1, <2>2 DEF naming
  <2> QED BY <1>1, <2>1, <2>3, NamelessStep DEF PC
<1>2. CASE pc[c] = "closing" /\ name[c] # None
  <2>1. /\ pc' = [pc EXCEPT ![c] = "unnamed"] /\ Unregister(c)
        /\ UNCHANGED <<names, name, account>>
    BY <1>2 DEF CleanupDirectory, Goto
  <2> QED BY <1>2, <2>1, NameUnregistered
<1>3. CASE pc[c] = "unnamed"
  <2>1. /\ pc' = [pc EXCEPT ![c] = "draining"] /\ names' = names \ {name[c]}
        /\ UNCHANGED <<name, account, directory>>
    BY <1>3 DEF CleanupDirectory, Goto
  <2> QED BY <1>3, <2>1, NameReleased
<1> QED BY <1>1, <1>2, <1>3 DEF CleanupDirectory, Goto

(* The steps of a task that has not logged on.                             *)
NameNeutral(c) ==
  \/ \E i \in IP : Accept(c, i)
  \/ \E k \in Class \ Product : Admit(c, k)
  \/ Refuse(c) \/ AuxEnds(c)
  \/ \E p \in Product : AuthInfo(c, p)
  \/ \E p \in Product \cup {None} : StartVersioning(c, p)
  \/ VersionWithoutKeys(c)
  \/ \E ks \in KeyLists : AuthCheck(c, ks)
  \/ ClaimKey(c) \/ RefuseKeys(c)
  \/ pc[c] # "online" /\ Close(c)

(* None of them changes a name or the directory.                           *)
LEMMA NameOthers ==
  ASSUME NameInv, NEW c \in Conn, NameNeutral(c)
  PROVE  NameInv'
<1>1. UNCHANGED naming
  BY DEF NameNeutral, Accept, Admit, Refuse, AuxEnds, AuthInfo, StartVersioning,
         VersionWithoutKeys, AuthCheck, ClaimKey, RefuseKeys, Close
<1>2. pc = [pc EXCEPT ![c] = pc[c]] /\ pc[c] \in PC
  BY DEF NameInv, NameType
<1>3. PICK to \in PC : /\ pc' = [pc EXCEPT ![c] = to]
                      /\ to \in Nameless \cup {"closing", "draining"}
                      /\ pc[c] \in Nameless
  BY <1>2 DEF Goto, PC, Idle, Nameless,
         NameNeutral, Accept, Admit, Refuse, AuxEnds, AuthInfo, StartVersioning,
         VersionWithoutKeys, AuthCheck, ClaimKey, RefuseKeys, Close
<1>4. name[c] = None
  BY <1>3 DEF NameInv, NameType, NamePhase
<1> QED BY <1>1, <1>3, <1>4, NamelessStep

(* The steps of a logged-in task between its registrations.                *)
NameKept(c) == EnterChat(c) \/ EnteredAsBefore(c) \/ (pc[c] = "online" /\ Close(c))

(* They leave the session listed under its name.                           *)
LEMMA NameListed ==
  ASSUME NameInv, NEW c \in Conn, NameKept(c)
  PROVE  NameInv'
<1>1. UNCHANGED naming /\ pc[c] \in {"online", "entering"}
  BY DEF NameKept, EnterChat, EnteredAsBefore, Close, Goto
<1>2. \E to \in Listed : pc' = [pc EXCEPT ![c] = to]
  BY DEF NameKept, EnterChat, EnteredAsBefore, Close, Goto, Listed
<1> QED BY <1>1, <1>2, ListedStep

(* adopt_realm_character unregisters the session and then frees its old    *)
(* name.                                                                   *)
LEMMA NameAdopted ==
  ASSUME NameInv, NEW c \in Conn, AdoptRealmCharacter(c) \/ ReleaseOldName(c)
  PROVE  NameInv'
<1>1. CASE AdoptRealmCharacter(c)
  <2>1. /\ pc[c] = "entering" /\ pc' = [pc EXCEPT ![c] = "unnaming"] /\ Unregister(c)
        /\ UNCHANGED <<names, name, account>>
    BY <1>1 DEF AdoptRealmCharacter, Goto
  <2>2. name[c] # None
    BY <2>1 DEF NameInv, NamePhase
  <2> QED BY <2>1, <2>2, NameUnregistered
<1>2. CASE ReleaseOldName(c)
  <2>1. /\ pc[c] = "unnaming" /\ pc' = [pc EXCEPT ![c] = "naming"]
        /\ names' = names \ {name[c]} /\ UNCHANGED <<name, account, directory>>
    BY <1>2 DEF ReleaseOldName, Goto
  <2> QED BY <2>1, NameReleased
<1> QED BY <1>1, <1>2

(* The steps of the system, grouped as the proofs about names need them.   *)
NameStep(c) ==
  \/ NameNeutral(c) \/ NameKept(c) \/ (\E a \in Account : Logon(c, a))
  \/ ClaimName(c) \/ Register(c) \/ AdoptRealmCharacter(c) \/ ReleaseOldName(c)
  \/ CleanupDirectory(c) \/ Release(c) \/ CleanupKeys(c)

(* Every step of the system is one of these.                               *)
LEMMA NameSteps ==
  ASSUME Next
  PROVE  (\E c \in Conn : NameStep(c)) \/ (\E k \in Key : CooldownPasses(k)) \/ Staff
<1>1. \A c \in Conn : Close(c) \/ Killed(c) => NameNeutral(c) \/ NameKept(c)
  BY DEF NameNeutral, NameKept, Killed
<1> QED BY <1>1 DEF Next, Handler, NameStep, NameNeutral, NameKept, Staff

(* Every step of the system preserves the invariant.                       *)
LEMMA NameInductive == NameInv /\ [Next]_vars => NameInv'
<1> SUFFICES ASSUME NameInv, [Next]_vars PROVE NameInv'
  OBVIOUS
<1>1. ASSUME NEW c \in Conn, \E a \in Account : Logon(c, a) PROVE NameInv'
  BY <1>1, NameLogon
<1>2. ASSUME NEW c \in Conn, CleanupKeys(c) PROVE NameInv'
  <2>1. UNCHANGED <<pc, naming>>
    BY <1>2 DEF CleanupKeys
  <2> QED BY <2>1, NameStutter
<1>3. ASSUME NEW k \in Key, CooldownPasses(k) PROVE NameInv'
  <2>1. UNCHANGED <<pc, naming>>
    BY <1>3 DEF CooldownPasses
  <2> QED BY <2>1, NameStutter
<1>4. ASSUME Staff PROVE NameInv'
  <2>1. UNCHANGED <<pc, naming>>
    BY <1>4 DEF Staff, StaffIpBan, BanIp, Disconnect, Lift, StaffTagBan, StaffStep
  <2> QED BY <2>1, NameStutter
<1>5. CASE UNCHANGED vars
  <2>1. UNCHANGED <<pc, naming>>
    BY <1>5 DEF vars
  <2> QED BY <2>1, NameStutter
<1>6. ASSUME NEW c \in Conn, NameStep(c) PROVE NameInv'
  BY <1>1, <1>2, <1>6, NameOthers, NameListed, NameAdopted, NameClaimed, NameRegistered,
     NameCleanup, NameForgotten
     DEF NameStep
<1>7. CASE Next
  BY <1>3, <1>4, <1>6, <1>7, NameSteps
<1> QED BY <1>5, <1>7

(* The directory and the set of names are empty when the server starts.    *)
LEMMA NameInitially == Init => NameInv
BY DEF Init, NameInv, NameType, NamePhase, DirectoryExact, Named, PC, Idle

(* Display names are distinct and the directory holds exactly the sessions *)
(* that are logged in and not being renamed.                               *)
THEOREM DirectoryStaysExact == Spec => []DirectoryExact
<1>1. Init => NameInv
  BY NameInitially
<1>2. NameInv => DirectoryExact
  BY DEF NameInv
<1> QED BY <1>1, <1>2, NameInductive, PTL DEF Spec

-----------------------------------------------------------------------------
(* The admission table.                                                    *)

(* A connection has a class exactly from its admission to its release, and *)
(* an address from its accept.                                             *)
Unadmitted == {"free", "accepted"}

AdmissionType ==
  /\ pc \in [Conn -> PC]
  /\ ip \in [Conn -> IP \cup {None}]
  /\ cls \in [Conn -> Class \cup {None}]
  /\ perIp \in [Class \X IP -> Nat]
  /\ perClass \in [Class -> Nat]
  /\ total \in Nat

AdmissionPhase ==
  \A c \in Conn :
    /\ pc[c] \in Unadmitted <=> cls[c] = None
    /\ pc[c] # "free" => ip[c] \in IP

AdmissionInv == AdmissionType /\ AdmissionPhase /\ AdmissionExact

Admitted == {c \in Conn : cls[c] # None}

(* What the proofs use of the named assumption: there are finitely many    *)
(* connections, and None is neither an address nor a class.                *)
LEMMA AdmissionConstants ==
  /\ IsFiniteSet(Conn) /\ None \notin IP /\ None \notin Class
  /\ Global \in [Class -> Nat] /\ PerIp \in [Class -> Nat]
BY SessionLifeAssumption, Zenon DEF SessionLifeAssumption

(* One connection more, or less, in a set of connections.                  *)
LEMMA OneMore ==
  ASSUME NEW S \in SUBSET Conn, NEW c \in Conn, c \notin S
  PROVE  Cardinality(S \cup {c}) = Cardinality(S) + 1
<1>1. IsFiniteSet(S)
  BY AdmissionConstants, FS_Subset
<1> QED BY <1>1, FS_AddElement

(* The saturating subtraction of AdmissionTable::release never saturates   *)
(* on the count of a set that holds the connection.                        *)
LEMMA OneLess ==
  ASSUME NEW S \in SUBSET Conn, NEW c \in S
  PROVE  Cardinality(S \ {c}) = Less(Cardinality(S))
<1>1. IsFiniteSet(S)
  BY AdmissionConstants, FS_Subset
<1>2. IsFiniteSet(S \ {c}) /\ Cardinality(S \ {c}) = Cardinality(S) - 1
  BY <1>1, FS_RemoveElement
<1>3. Cardinality(S) \in Nat /\ Cardinality(S \ {c}) \in Nat
  BY <1>1, <1>2, FS_CardinalityType
<1> QED BY <1>2, <1>3 DEF Less

(* A step of c's task on either side of its admission.                     *)
LEMMA AdmissionQuiet ==
  ASSUME AdmissionInv, NEW c \in Conn, NEW to \in PC,
         pc' = [pc EXCEPT ![c] = to], UNCHANGED <<ip, cls, admission>>,
         pc[c] \notin Unadmitted, to \notin Unadmitted
  PROVE  AdmissionInv'
<1> USE DEF admission
<1>1. AdmissionType'
  BY DEF AdmissionInv, AdmissionType
<1>2. AdmissionPhase'
  BY DEF AdmissionInv, AdmissionPhase, AdmissionType, Unadmitted
<1>3. AdmissionExact'
  BY DEF AdmissionInv, AdmissionExact, Live, LiveIn
<1> QED BY <1>1, <1>2, <1>3 DEF AdmissionInv

(* A step that moves no task and admits or releases nobody.                *)
LEMMA AdmissionStutter ==
  ASSUME AdmissionInv, UNCHANGED <<pc, ip, cls, admission>>
  PROVE  AdmissionInv'
BY DEF AdmissionInv, AdmissionType, AdmissionPhase, AdmissionExact, Live, LiveIn, admission

(* The accept loop and a refusal before admission: the connection has an   *)
(* address but no class, so no count includes it.                          *)
LEMMA AdmissionOutside ==
  ASSUME AdmissionInv, NEW c \in Conn, Refuse(c) \/ \E i \in IP : Accept(c, i)
  PROVE  AdmissionInv'
<1>1. /\ pc[c] \in Unadmitted /\ UNCHANGED <<cls, admission>>
      /\ \E to \in Unadmitted, x \in IP \cup {None} :
           /\ pc' = [pc EXCEPT ![c] = to] /\ ip' = [ip EXCEPT ![c] = x]
           /\ to # "free" => x \in IP
  BY DEF Refuse, Accept, Goto, Unadmitted
<1>2. AdmissionType'
  BY <1>1 DEF AdmissionInv, AdmissionType, PC, Unadmitted, admission
<1>3. AdmissionPhase'
  BY <1>1 DEF AdmissionInv, AdmissionType, AdmissionPhase, Unadmitted
<1>4. cls[c] = None
  BY <1>1 DEF AdmissionInv, AdmissionPhase
<1>5. \A k \in Class, i \in IP : Live(k, i)' = Live(k, i)
  BY <1>1, <1>4, AdmissionConstants DEF AdmissionInv, AdmissionType, Live
<1>6. AdmissionExact'
  BY <1>1, <1>5 DEF AdmissionInv, AdmissionExact, LiveIn, admission
<1> QED BY <1>2, <1>3, <1>6 DEF AdmissionInv

(* AdmissionTable::admit counts the connection once, under its class.      *)
LEMMA AdmissionAdmit ==
  ASSUME AdmissionInv, NEW c \in Conn, NEW k \in Class, Admit(c, k)
  PROVE  AdmissionInv'
<1>1. /\ pc[c] = "accepted" /\ WouldAdmit(k, ip[c]) /\ UNCHANGED ip
      /\ cls' = [cls EXCEPT ![c] = k]
      /\ perIp' = [perIp EXCEPT ![<<k, ip[c]>>] = @ + 1]
      /\ perClass' = [perClass EXCEPT ![k] = @ + 1]
      /\ total' = total + 1
      /\ \E to \in {"connected", "aux"} : pc' = [pc EXCEPT ![c] = to]
  BY DEF Admit, Add, Goto
<1>2. cls[c] = None /\ ip[c] \in IP /\ k # None
  BY <1>1, AdmissionConstants DEF AdmissionInv, AdmissionPhase, Unadmitted
<1>3. AdmissionType'
  BY <1>1, <1>2 DEF AdmissionInv, AdmissionType, PC, Idle
<1>4. AdmissionPhase'
  BY <1>1, <1>2 DEF AdmissionInv, AdmissionType, AdmissionPhase, Unadmitted
<1>5. ASSUME NEW x \in Class, NEW i \in IP
      PROVE  /\ perIp'[<<x, i>>] = Cardinality(Live(x, i)')
             /\ i \notin Allowlist => perIp'[<<x, i>>] <= PerIp[x]
  <2>1. CASE x = k /\ i = ip[c]
    <3>1. Live(x, i)' = Live(x, i) \cup {c} /\ c \notin Live(x, i)
      BY <1>1, <1>2, <2>1 DEF AdmissionInv, AdmissionType, Live
    <3>2. Cardinality(Live(x, i)') = Cardinality(Live(x, i)) + 1
      BY <3>1, OneMore DEF Live
    <3>3. perIp'[<<x, i>>] = perIp[<<x, i>>] + 1 /\ perIp[<<x, i>>] \in Nat
      BY <1>1, <2>1 DEF AdmissionInv, AdmissionType
    <3>4. perIp[<<x, i>>] = Cardinality(Live(x, i))
      BY DEF AdmissionInv, AdmissionExact
    <3>5. PerIp[x] \in Nat /\ (i \notin Allowlist => perIp[<<x, i>>] < PerIp[x])
      BY <1>1, <2>1, AdmissionConstants DEF WouldAdmit
    <3> QED BY <3>2, <3>3, <3>4, <3>5
  <2>2. CASE ~(x = k /\ i = ip[c])
    <3>1. Live(x, i)' = Live(x, i)
      BY <1>1, <1>2, <2>2, AdmissionConstants DEF AdmissionInv, AdmissionType, Live
    <3>2. <<x, i>> # <<k, ip[c]>>
      BY <2>2
    <3>3. perIp'[<<x, i>>] = perIp[<<x, i>>]
      BY <1>1, <3>2 DEF AdmissionInv, AdmissionType
    <3> QED BY <3>1, <3>3 DEF AdmissionInv, AdmissionExact
  <2> QED BY <2>1, <2>2
<1>6. ASSUME NEW x \in Class
      PROVE  perClass'[x] = Cardinality(LiveIn(x)') /\ perClass'[x] <= Global[x]
  <2>1. CASE x = k
    <3>1. LiveIn(x)' = LiveIn(x) \cup {c} /\ c \notin LiveIn(x)
      BY <1>1, <1>2, <2>1 DEF AdmissionInv, AdmissionType, LiveIn
    <3>2. Cardinality(LiveIn(x)') = Cardinality(LiveIn(x)) + 1
      BY <3>1, OneMore DEF LiveIn
    <3>3. perClass'[x] = perClass[x] + 1 /\ perClass[x] \in Nat
      BY <1>1, <2>1 DEF AdmissionInv, AdmissionType
    <3>4. perClass[x] = Cardinality(LiveIn(x))
      BY DEF AdmissionInv, AdmissionExact
    <3>5. Global[x] \in Nat /\ perClass[x] < Global[x]
      BY <1>1, <2>1, AdmissionConstants DEF WouldAdmit
    <3> QED BY <3>2, <3>3, <3>4, <3>5
  <2>2. CASE x # k
    <3>1. LiveIn(x)' = LiveIn(x) /\ perClass'[x] = perClass[x]
      BY <1>1, <1>2, <2>2, AdmissionConstants DEF AdmissionInv, AdmissionType, LiveIn
    <3> QED BY <3>1 DEF AdmissionInv, AdmissionExact
  <2> QED BY <2>1, <2>2
<1>7. total' = Cardinality(Admitted')
  <2>1. Admitted' = Admitted \cup {c} /\ c \notin Admitted
    BY <1>1, <1>2 DEF AdmissionInv, AdmissionType, Admitted
  <2>2. Cardinality(Admitted') = Cardinality(Admitted) + 1
    BY <2>1, OneMore DEF Admitted
  <2> QED BY <1>1, <2>2 DEF AdmissionInv, AdmissionExact, Admitted
<1>8. AdmissionExact'
  BY <1>5, <1>6, <1>7 DEF AdmissionExact, Admitted
<1> QED BY <1>3, <1>4, <1>8 DEF AdmissionInv

(* AdmissionTable::release under the class the session ended with gives    *)
(* back exactly the slot the connection occupies.                          *)
LEMMA AdmissionReleased ==
  ASSUME AdmissionInv, NEW c \in Conn, Release(c)
  PROVE  AdmissionInv'
<1> DEFINE k == cls[c]
<1>1. /\ pc[c] = "draining" /\ pc' = [pc EXCEPT ![c] = "free"]
      /\ ip' = [ip EXCEPT ![c] = None] /\ cls' = [cls EXCEPT ![c] = None]
      /\ perIp' = [perIp EXCEPT ![<<k, ip[c]>>] = Less(@)]
      /\ perClass' = [perClass EXCEPT ![k] = Less(@)]
      /\ total' = Less(total)
  BY DEF Release, Remove, Goto
<1>2. k \in Class /\ ip[c] \in IP /\ k # None
  BY <1>1, AdmissionConstants DEF AdmissionInv, AdmissionType, AdmissionPhase, Unadmitted
<1> HIDE DEF k
<1>3. \A n \in Nat : Less(n) \in Nat /\ Less(n) <= n
  BY DEF Less
<1>4. AdmissionType'
  BY <1>1, <1>2, <1>3 DEF AdmissionInv, AdmissionType, PC
<1>5. AdmissionPhase'
  BY <1>1, <1>2 DEF AdmissionInv, AdmissionType, AdmissionPhase, Unadmitted
<1>6. ASSUME NEW x \in Class, NEW i \in IP
      PROVE  /\ perIp'[<<x, i>>] = Cardinality(Live(x, i)')
             /\ i \notin Allowlist => perIp'[<<x, i>>] <= PerIp[x]
  <2>0. /\ perIp[<<x, i>>] \in Nat /\ PerIp[x] \in Nat
        /\ perIp[<<x, i>>] = Cardinality(Live(x, i))
        /\ i \notin Allowlist => perIp[<<x, i>>] <= PerIp[x]
    BY AdmissionConstants DEF AdmissionInv, AdmissionType, AdmissionExact
  <2>1. CASE x = k /\ i = ip[c]
    <3>1. Live(x, i)' = Live(x, i) \ {c} /\ c \in Live(x, i)
      BY <1>1, <1>2, <2>1, AdmissionConstants DEF AdmissionInv, AdmissionType, Live, k
    <3>2. Cardinality(Live(x, i)') = Less(Cardinality(Live(x, i)))
      BY <3>1, OneLess DEF Live
    <3>3. perIp'[<<x, i>>] = Less(perIp[<<x, i>>])
      BY <1>1, <2>1 DEF AdmissionInv, AdmissionType
    <3>4. Less(perIp[<<x, i>>]) \in Nat /\ Less(perIp[<<x, i>>]) <= perIp[<<x, i>>]
      BY <1>3, <2>0
    <3> QED BY <2>0, <3>2, <3>3, <3>4
  <2>2. CASE ~(x = k /\ i = ip[c])
    <3>1. Live(x, i)' = Live(x, i)
      BY <1>1, <1>2, <2>2, AdmissionConstants DEF AdmissionInv, AdmissionType, Live, k
    <3>2. <<x, i>> # <<k, ip[c]>>
      BY <2>2
    <3>3. perIp'[<<x, i>>] = perIp[<<x, i>>]
      BY <1>1, <3>2 DEF AdmissionInv, AdmissionType
    <3> QED BY <2>0, <3>1, <3>3
  <2> QED BY <2>1, <2>2
<1>7. ASSUME NEW x \in Class
      PROVE  perClass'[x] = Cardinality(LiveIn(x)') /\ perClass'[x] <= Global[x]
  <2>0. /\ perClass[x] \in Nat /\ Global[x] \in Nat
        /\ perClass[x] = Cardinality(LiveIn(x)) /\ perClass[x] <= Global[x]
    BY AdmissionConstants DEF AdmissionInv, AdmissionType, AdmissionExact
  <2>1. CASE x = k
    <3>1. LiveIn(x)' = LiveIn(x) \ {c} /\ c \in LiveIn(x)
      BY <1>1, <1>2, <2>1, AdmissionConstants DEF AdmissionInv, AdmissionType, LiveIn, k
    <3>2. Cardinality(LiveIn(x)') = Less(Cardinality(LiveIn(x)))
      BY <3>1, OneLess DEF LiveIn
    <3>3. perClass'[x] = Less(perClass[x])
      BY <1>1, <2>1 DEF AdmissionInv, AdmissionType
    <3>4. Less(perClass[x]) \in Nat /\ Less(perClass[x]) <= perClass[x]
      BY <1>3, <2>0
    <3> QED BY <2>0, <3>2, <3>3, <3>4
  <2>2. CASE x # k
    <3>1. LiveIn(x)' = LiveIn(x) /\ perClass'[x] = perClass[x]
      BY <1>1, <1>2, <2>2, AdmissionConstants DEF AdmissionInv, AdmissionType, LiveIn, k
    <3> QED BY <2>0, <3>1
  <2> QED BY <2>1, <2>2
<1>8. total' = Cardinality(Admitted')
  <2>1. Admitted' = Admitted \ {c} /\ c \in Admitted
    BY <1>1, <1>2 DEF AdmissionInv, AdmissionType, Admitted, k
  <2>2. Cardinality(Admitted') = Less(Cardinality(Admitted))
    BY <2>1, OneLess DEF Admitted
  <2> QED BY <1>1, <2>2 DEF AdmissionInv, AdmissionExact, Admitted
<1>9. AdmissionExact'
  BY <1>6, <1>7, <1>8 DEF AdmissionExact, Admitted
<1> QED BY <1>4, <1>5, <1>9 DEF AdmissionInv

(* AdmissionTable::reclassify at SID_AUTH_INFO moves the connection's slot *)
(* from one class to another, or leaves every count as it was.             *)
LEMMA AdmissionReclassified ==
  ASSUME AdmissionInv, NEW c \in Conn, NEW p \in Product, AuthInfo(c, p)
  PROVE  AdmissionInv'
<1>1. /\ pc[c] = "connected" /\ Reclassify(c, p) /\ UNCHANGED ip
      /\ \E to \in {"versioning", "closing"} : pc' = [pc EXCEPT ![c] = to]
  BY DEF AuthInfo
<1>2. CASE p = cls[c] \/ ~WouldAdmit(p, ip[c])
  <2>1. UNCHANGED <<ip, cls, admission>>
    BY <1>1, <1>2 DEF Reclassify
  <2> QED BY <1>1, <2>1, AdmissionQuiet DEF PC, Idle, Unadmitted
<1>3. CASE ~(p = cls[c] \/ ~WouldAdmit(p, ip[c]))
  <2> DEFINE k == cls[c]
  <2>1. /\ perIp' = [perIp EXCEPT ![<<k, ip[c]>>] = Less(@), ![<<p, ip[c]>>] = @ + 1]
        /\ perClass' = [perClass EXCEPT ![k] = Less(@), ![p] = @ + 1]
        /\ cls' = [cls EXCEPT ![c] = p]
        /\ UNCHANGED <<ip, total>> /\ WouldAdmit(p, ip[c]) /\ p # k
    BY <1>1, <1>3 DEF Reclassify
  <2>2. k \in Class /\ ip[c] \in IP /\ k # None /\ p \in Class /\ p # None
    BY <1>1, AdmissionConstants
       DEF AdmissionInv, AdmissionType, AdmissionPhase, Unadmitted, Class
  <2>k. cls[c] = k
    OBVIOUS
  <2> HIDE DEF k
  <2>3. \A n \in Nat : Less(n) \in Nat /\ Less(n) <= n
    BY DEF Less
  <2>4. /\ perIp' \in [Class \X IP -> Nat]
        /\ perIp'[<<k, ip[c]>>] = Less(perIp[<<k, ip[c]>>])
        /\ perIp'[<<p, ip[c]>>] = perIp[<<p, ip[c]>>] + 1
        /\ \A y \in Class \X IP : y # <<k, ip[c]>> /\ y # <<p, ip[c]>> => perIp'[y] = perIp[y]
    <3>1. <<k, ip[c]>> # <<p, ip[c]>>
      BY <2>1
    <3>2. <<k, ip[c]>> \in Class \X IP /\ <<p, ip[c]>> \in Class \X IP
      BY <2>2
    <3> QED BY <2>1, <2>3, <3>1, <3>2 DEF AdmissionInv, AdmissionType
  <2>5. /\ perClass' \in [Class -> Nat]
        /\ perClass'[k] = Less(perClass[k]) /\ perClass'[p] = perClass[p] + 1
        /\ \A y \in Class : y # k /\ y # p => perClass'[y] = perClass[y]
    BY <2>1, <2>2, <2>3 DEF AdmissionInv, AdmissionType
  <2>6. AdmissionType'
    <3>1. pc' \in [Conn -> PC]
      BY <1>1 DEF AdmissionInv, AdmissionType, PC, Idle
    <3>2. cls' \in [Conn -> Class \cup {None}]
      BY <2>1, <2>2 DEF AdmissionInv, AdmissionType
    <3> QED BY <2>1, <2>4, <2>5, <3>1, <3>2 DEF AdmissionInv, AdmissionType
  <2>7. AdmissionPhase'
    BY <1>1, <2>1, <2>2 DEF AdmissionInv, AdmissionType, AdmissionPhase, Unadmitted
  <2>8. ASSUME NEW x \in Class, NEW i \in IP
        PROVE  /\ perIp'[<<x, i>>] = Cardinality(Live(x, i)')
               /\ i \notin Allowlist => perIp'[<<x, i>>] <= PerIp[x]
    <3>0. /\ perIp[<<x, i>>] \in Nat /\ PerIp[x] \in Nat
          /\ perIp[<<x, i>>] = Cardinality(Live(x, i))
          /\ i \notin Allowlist => perIp[<<x, i>>] <= PerIp[x]
      BY AdmissionConstants DEF AdmissionInv, AdmissionType, AdmissionExact
    <3>1. CASE x = k /\ i = ip[c]
      <4>1. Live(x, i)' = Live(x, i) \ {c} /\ c \in Live(x, i)
        BY <2>1, <2>2, <2>k, <3>1 DEF AdmissionInv, AdmissionType, Live
      <4>2. Cardinality(Live(x, i)') = Less(Cardinality(Live(x, i)))
        BY <4>1, OneLess DEF Live
      <4>3. Less(perIp[<<x, i>>]) \in Nat /\ Less(perIp[<<x, i>>]) <= perIp[<<x, i>>]
        BY <2>3, <3>0
      <4> QED BY <2>4, <3>0, <3>1, <4>2, <4>3
    <3>2. CASE x = p /\ i = ip[c]
      <4>1. Live(x, i)' = Live(x, i) \cup {c} /\ c \notin Live(x, i)
        BY <2>1, <2>2, <2>k, <3>2 DEF AdmissionInv, AdmissionType, Live
      <4>2. Cardinality(Live(x, i)') = Cardinality(Live(x, i)) + 1
        BY <4>1, OneMore DEF Live
      <4>3. i \notin Allowlist => perIp[<<x, i>>] < PerIp[x]
        BY <2>1, <3>2 DEF WouldAdmit
      <4> QED BY <2>4, <3>0, <3>2, <4>2, <4>3
    <3>3. CASE ~(x = k /\ i = ip[c]) /\ ~(x = p /\ i = ip[c])
      <4>1. Live(x, i)' = Live(x, i)
        BY <2>1, <2>2, <2>k, <3>3 DEF AdmissionInv, AdmissionType, Live
      <4>2. <<x, i>> # <<k, ip[c]>> /\ <<x, i>> # <<p, ip[c]>> /\ <<x, i>> \in Class \X IP
        BY <3>3
      <4> QED BY <2>4, <3>0, <4>1, <4>2
    <3> QED BY <3>1, <3>2, <3>3
  <2>9. ASSUME NEW x \in Class
        PROVE  perClass'[x] = Cardinality(LiveIn(x)') /\ perClass'[x] <= Global[x]
    <3>0. /\ perClass[x] \in Nat /\ Global[x] \in Nat
          /\ perClass[x] = Cardinality(LiveIn(x)) /\ perClass[x] <= Global[x]
      BY AdmissionConstants DEF AdmissionInv, AdmissionType, AdmissionExact
    <3>1. CASE x = k
      <4>1. LiveIn(x)' = LiveIn(x) \ {c} /\ c \in LiveIn(x)
        BY <2>1, <2>2, <2>k, <3>1 DEF AdmissionInv, AdmissionType, LiveIn
      <4>2. Cardinality(LiveIn(x)') = Less(Cardinality(LiveIn(x)))
        BY <4>1, OneLess DEF LiveIn
      <4>3. Less(perClass[x]) \in Nat /\ Less(perClass[x]) <= perClass[x]
        BY <2>3, <3>0
      <4> QED BY <2>5, <3>0, <3>1, <4>2, <4>3
    <3>2. CASE x = p
      <4>1. LiveIn(x)' = LiveIn(x) \cup {c} /\ c \notin LiveIn(x)
        BY <2>1, <2>2, <2>k, <3>2 DEF AdmissionInv, AdmissionType, LiveIn
      <4>2. Cardinality(LiveIn(x)') = Cardinality(LiveIn(x)) + 1
        BY <4>1, OneMore DEF LiveIn
      <4>3. perClass[x] < Global[x]
        BY <2>1, <3>2 DEF WouldAdmit
      <4> QED BY <2>5, <3>0, <3>2, <4>2, <4>3
    <3>3. CASE x # k /\ x # p
      <4>1. LiveIn(x)' = LiveIn(x)
        BY <2>1, <2>2, <2>k, <3>3 DEF AdmissionInv, AdmissionType, LiveIn
      <4> QED BY <2>5, <3>0, <3>3, <4>1
    <3> QED BY <3>1, <3>2, <3>3
  <2>10. Admitted' = Admitted
    BY <2>1, <2>2, <2>k DEF AdmissionInv, AdmissionType, Admitted
  <2>11. AdmissionExact'
    BY <2>1, <2>8, <2>9, <2>10 DEF AdmissionInv, AdmissionExact, Admitted
  <2> QED BY <2>6, <2>7, <2>11 DEF AdmissionInv
<1> QED BY <1>2, <1>3

(* The steps of an admitted task between admission, promotion and release. *)
AdmissionNeutral(c) ==
  \/ AuxEnds(c) \/ VersionWithoutKeys(c)
  \/ \E p \in Product \cup {None} : StartVersioning(c, p)
  \/ \E ks \in KeyLists : AuthCheck(c, ks)
  \/ \E a \in Account : Logon(c, a)
  \/ EnterChat(c) \/ Close(c) \/ Killed(c) \/ Handler(c)

(* None of them touches the admission table or the connection's class.     *)
LEMMA AdmissionOthers ==
  ASSUME AdmissionInv, NEW c \in Conn, AdmissionNeutral(c)
  PROVE  AdmissionInv'
<1>1. UNCHANGED <<ip, cls, admission>>
  BY DEF AdmissionNeutral, Handler, AuxEnds, StartVersioning, VersionWithoutKeys, AuthCheck,
         ClaimKey, RefuseKeys, Logon, ClaimName, Register, EnterChat, EnteredAsBefore,
         AdoptRealmCharacter, ReleaseOldName, Close, Killed, CleanupKeys, CleanupDirectory
<1>2. pc = [pc EXCEPT ![c] = pc[c]] /\ pc[c] \in PC
  BY DEF AdmissionInv, AdmissionType
<1>3. PICK to \in PC : pc' = [pc EXCEPT ![c] = to] /\ to \notin Unadmitted
                       /\ pc[c] \notin Unadmitted
  BY <1>2 DEF Goto, PC, Idle, Unadmitted,
         AdmissionNeutral, Handler, AuxEnds, StartVersioning, VersionWithoutKeys, AuthCheck,
         ClaimKey, RefuseKeys, Logon, ClaimName, Register, EnterChat, EnteredAsBefore,
         AdoptRealmCharacter, ReleaseOldName, Close, Killed, CleanupKeys, CleanupDirectory
<1> QED BY <1>1, <1>3, AdmissionQuiet

(* The steps of the system, grouped as the proofs about admission need     *)
(* them.                                                                   *)
AdmissionStep(c) ==
  \/ Refuse(c) \/ \E i \in IP : Accept(c, i)
  \/ \E k \in Class : Admit(c, k)
  \/ \E p \in Product : AuthInfo(c, p)
  \/ Release(c) \/ AdmissionNeutral(c)

(* Every step of the system is one of these.                               *)
LEMMA AdmissionSteps ==
  ASSUME Next
  PROVE  (\E c \in Conn : AdmissionStep(c)) \/ (\E k \in Key : CooldownPasses(k)) \/ Staff
BY DEF Next, AdmissionStep, AdmissionNeutral, Staff

(* Every step of the system preserves the invariant.                       *)
LEMMA AdmissionInductive == AdmissionInv /\ [Next]_vars => AdmissionInv'
<1> SUFFICES ASSUME AdmissionInv, [Next]_vars PROVE AdmissionInv'
  OBVIOUS
<1>1. ASSUME NEW c \in Conn, AdmissionStep(c) PROVE AdmissionInv'
  BY <1>1, AdmissionOutside, AdmissionAdmit, AdmissionReclassified, AdmissionReleased,
     AdmissionOthers
     DEF AdmissionStep
<1>2. ASSUME NEW k \in Key, CooldownPasses(k) PROVE AdmissionInv'
  <2>1. UNCHANGED <<pc, ip, cls, admission>>
    BY <1>2 DEF CooldownPasses
  <2> QED BY <2>1, AdmissionStutter
<1>3. ASSUME Staff PROVE AdmissionInv'
  <2>1. UNCHANGED <<pc, ip, cls, admission>>
    BY <1>3 DEF Staff, StaffIpBan, BanIp, Disconnect, Lift, StaffTagBan, StaffStep
  <2> QED BY <2>1, AdmissionStutter
<1>4. CASE UNCHANGED vars
  <2>1. UNCHANGED <<pc, ip, cls, admission>>
    BY <1>4 DEF vars
  <2> QED BY <2>1, AdmissionStutter
<1>5. CASE Next
  BY <1>1, <1>2, <1>3, <1>5, AdmissionSteps
<1> QED BY <1>4, <1>5

(* No connection is counted when the server starts.                        *)
LEMMA AdmissionInitially == Init => AdmissionInv
<1> SUFFICES ASSUME Init PROVE AdmissionInv
  OBVIOUS
<1>1. AdmissionType /\ AdmissionPhase
  BY DEF Init, AdmissionType, AdmissionPhase, Unadmitted, PC
<1>2. /\ \A k \in Class, i \in IP : Live(k, i) = {}
      /\ \A k \in Class : LiveIn(k) = {}
      /\ Admitted = {}
  BY AdmissionConstants DEF Init, Live, LiveIn, Admitted
<1>3. Cardinality({}) = 0
  BY FS_EmptySet
<1>4. ASSUME NEW k \in Class, NEW i \in IP
      PROVE  perIp[<<k, i>>] = 0 /\ 0 <= PerIp[k]
  <2>1. <<k, i>> \in Class \X IP /\ PerIp[k] \in Nat
    BY AdmissionConstants
  <2> QED BY <2>1 DEF Init
<1>5. ASSUME NEW k \in Class PROVE perClass[k] = 0 /\ 0 <= Global[k]
  <2>1. Global[k] \in Nat
    BY AdmissionConstants
  <2> QED BY <2>1 DEF Init
<1>6. total = 0
  BY DEF Init
<1>7. AdmissionExact
  BY <1>2, <1>3, <1>4, <1>5, <1>6 DEF AdmissionExact, Admitted
<1> QED BY <1>1, <1>7 DEF AdmissionInv

(* AdmissionTable counts exactly the admitted connections and no class     *)
(* exceeds its ceilings, whatever connections were promoted to and however *)
(* they ended.                                                             *)
THEOREM AdmissionStaysExact == Spec => []AdmissionExact
<1>1. Init => AdmissionInv
  BY AdmissionInitially
<1>2. AdmissionInv => AdmissionExact
  BY DEF AdmissionInv
<1> QED BY <1>1, <1>2, AdmissionInductive, PTL DEF Spec

-----------------------------------------------------------------------------
(* Types.                                                                  *)

(* The part of the type invariant the three invariants above do not state. *)
ModerationType ==
  /\ product \in [Conn -> Product \cup {None}]
  /\ kill \subseteq Conn /\ told \subseteq Conn
  /\ ipBans \subseteq IP /\ tagBans \subseteq Account
  /\ staff \in {<<>>} \cup ({"ban", "ip"} \X IP) \cup ({"tag"} \X Account)

(* /ipban looks a session up in the directory and bans its address: a      *)
(* session found there was admitted, so it has one.                        *)
LEMMA ListedHasAddress ==
  ASSUME NameInv, AdmissionInv, NEW e \in directory
  PROVE  e[2] \in Conn /\ ip[e[2]] \in IP
BY DEF NameInv, NameType, DirectoryExact, Named, AdmissionInv, AdmissionPhase

(* Every step of the system preserves the types of the moderation state.   *)
LEMMA ModerationInductive ==
  ModerationType /\ NameInv /\ AdmissionInv /\ [Next]_vars => ModerationType'
<1> SUFFICES ASSUME ModerationType, NameInv, AdmissionInv, [Next]_vars
             PROVE  ModerationType'
  OBVIOUS
<1>1. ASSUME NEW c \in Conn, NEW p \in Product \cup {None},
             product' = [product EXCEPT ![c] = p], UNCHANGED moderation
      PROVE  ModerationType'
  BY <1>1 DEF ModerationType, moderation
<1>2. ASSUME NEW c \in Conn, Release(c) PROVE ModerationType'
  BY <1>2 DEF Release, ModerationType
<1>3. ASSUME NEW c \in Conn, AdmissionStep(c) PROVE ModerationType'
  <2>1. CASE Release(c)
    BY <2>1, <1>2
  <2>2. CASE \E p \in Product : AuthInfo(c, p)
    BY <2>2, <1>1 DEF AuthInfo
  <2>3. CASE \E p \in Product \cup {None} : StartVersioning(c, p)
    BY <2>3, <1>1 DEF StartVersioning
  <2>4. CASE ~Release(c) /\ ~(\E p \in Product : AuthInfo(c, p))
             /\ ~(\E p \in Product \cup {None} : StartVersioning(c, p))
    <3>1. UNCHANGED <<product, moderation>>
      BY <1>3, <2>4 DEF AdmissionStep, AdmissionNeutral, Handler, Accept, Refuse, Admit,
         AuxEnds, VersionWithoutKeys, AuthCheck, ClaimKey, RefuseKeys, Logon, ClaimName,
         Register, EnterChat, EnteredAsBefore, AdoptRealmCharacter, ReleaseOldName, Close,
         Killed, CleanupKeys, CleanupDirectory
    <3> QED BY <3>1 DEF ModerationType, moderation
  <2> QED BY <2>1, <2>2, <2>3, <2>4
<1>4. CASE (\E k \in Key : CooldownPasses(k)) \/ UNCHANGED vars
  <2>1. UNCHANGED <<product, moderation>>
    BY <1>4 DEF CooldownPasses, vars
  <2> QED BY <2>1 DEF ModerationType, moderation
<1>5. CASE StaffIpBan
  <2>1. PICK e \in directory : staff' = <<"ban", ip[e[2]]>>
    BY <1>5 DEF StaffIpBan, StaffStep
  <2>2. ip[e[2]] \in IP
    BY ListedHasAddress
  <2>3. staff' \in {"ban", "ip"} \X IP
    BY <2>1, <2>2
  <2>4. UNCHANGED <<product, kill, ipBans, tagBans, told>>
    BY <1>5 DEF StaffIpBan, StaffStep
  <2> QED BY <2>3, <2>4 DEF ModerationType
<1>6. CASE BanIp
  <2>1. staff \in {"ban", "ip"} \X IP
    BY <1>6 DEF BanIp, ModerationType
  <2>2. /\ staff' = <<"ip", staff[2]>> /\ ipBans' = ipBans \cup {staff[2]}
        /\ UNCHANGED <<product, kill, tagBans, told>>
    BY <1>6 DEF BanIp, StaffStep
  <2> QED BY <2>1, <2>2 DEF ModerationType
<1>7. CASE \E a \in Account : StaffTagBan(a)
  <2>1. PICK a \in Account : StaffTagBan(a)
    BY <1>7
  <2>2. /\ staff' = <<"tag", a>> /\ tagBans' = tagBans \cup {a}
        /\ UNCHANGED <<product, kill, ipBans, told>>
    BY <2>1 DEF StaffTagBan, StaffStep
  <2> QED BY <2>2 DEF ModerationType
<1>8. CASE Disconnect
  <2>1. \A what, x : Matching(what, x) \subseteq Conn
    BY ListedHasAddress DEF Matching
  <2>2. /\ kill' = kill \cup Matching(staff[1], staff[2])
        /\ told' = told \cup Matching(staff[1], staff[2])
        /\ staff' = <<>> /\ UNCHANGED <<product, ipBans, tagBans>>
    BY <1>8 DEF Disconnect, StaffStep, Notify
  <2> QED BY <2>1, <2>2 DEF ModerationType
<1>9. CASE Lift
  <2>1. /\ ipBans' \subseteq ipBans /\ tagBans' \subseteq tagBans
        /\ staff' = <<>> /\ UNCHANGED <<product, kill, told>>
    BY <1>9 DEF Lift, StaffStep
  <2> QED BY <2>1 DEF ModerationType
<1>10. CASE Next
  BY <1>3, <1>4, <1>5, <1>6, <1>7, <1>8, <1>9, <1>10, AdmissionSteps DEF Staff
<1> QED BY <1>4, <1>10

(* Every variable keeps its type; in particular a claimed display name has *)
(* a suffix within the number of connections, and only addresses that      *)
(* connected are banned.                                                   *)
THEOREM SessionTypeCorrect == Spec => []TypeOK
<1> DEFINE I == KeyInv /\ NameInv /\ AdmissionInv /\ ModerationType
<1>1. Init => I
  <2>1. Init => ModerationType
    BY DEF Init, ModerationType
  <2> QED BY <2>1, KeyInitially, NameInitially, AdmissionInitially
<1>2. I /\ [Next]_vars => I'
  BY KeyInductive, NameInductive, AdmissionInductive, ModerationInductive
<1>3. I => TypeOK
  BY DEF KeyInv, KeyType, NameInv, NameType, AdmissionInv, AdmissionType, ModerationType, TypeOK
<1> QED BY <1>1, <1>2, <1>3, PTL DEF Spec

=============================================================================
