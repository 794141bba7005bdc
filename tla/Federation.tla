------------------------------- MODULE Federation -------------------------------
(***************************************************************************)
(* The libraries for joining networks, which the daemon does not use yet:  *)
(* users of another network under names of their own and the bridges a     *)
(* message went through (crates/bnetcc-core/src/bridge.rs), and the link   *)
(* of a node to its hub (crates/bnetcc-federation).  Bytes are real,       *)
(* lengths and limits scaled, and the JSON of a message is its type and    *)
(* its cookie.                                                             *)
(***************************************************************************)
EXTENDS Names

CONSTANTS
  MaxTag, MaxBridgedName, MaxSuffix, MaxHops,
  MaxLinkFrame, LinkRead,     \* MAX_FRAME, and what one read takes at most
  RetryCeiling

-----------------------------------------------------------------------------
(* bridge.rs: names.                                                       *)

Alphanumeric(s) == \A i \in DOMAIN s : Letter(s[i]) \/ Digit(s[i])

BridgeTag(raw) == IF Len(raw) \in 1..MaxTag /\ Alphanumeric(raw) THEN raw ELSE None

(* The tag of a name of the bridges' namespace, and who may not be called  *)
(* so.                                                                     *)
IsBridgedName(name) ==
  LET at == SelectInSeq(name, LAMBDA c : c = Colon)
  IN  IF at = 0 \/ at = Len(name) THEN None ELSE BridgeTag(SubSeq(name, 1, at - 1))
NameIsReserved(name) == Has(name, Colon)

FallbackStem == <<117, 115, 101, 114>>

SanitizeRemoteName(display) ==
  LET cleaned == SelectSeq(display, LAMBDA c : Letter(c) \/ Digit(c) \/ c \in {Dash, 95, 91, 93})
  IN  IF cleaned = <<>> THEN FallbackStem ELSE cleaned

(* The stem gives way to the tag and to the number.                        *)
DeriveName(tag, display, n) ==
  LET number == IF n = None THEN <<>> ELSE <<Hash, 48 + n>>
      budget == MaxBridgedName - (Len(tag) + 1) - Len(number)
      stem == CutTo(SanitizeRemoteName(display), IF budget > 0 THEN budget ELSE 0)
  IN  tag \o <<Colon>> \o stem \o number

(* BridgeRegistry: who is presented, and whose each name is.               *)
NewRegistry(tag) == [tag |-> tag, byRemote |-> <<>>, byName |-> <<>>]

DropKey(f, k) == [x \in DOMAIN f \ {k} |-> f[x]]

UserNamed(g, name) ==
  IF Folded(name) \in DOMAIN g.byName THEN g.byRemote[g.byName[Folded(name)]] ELSE None

(* The name, else its lowest free number, else a name from the remote id,  *)
(* which is taken without a look.                                          *)
AllocateName(g, display, remote) ==
  LET Free(name) == Folded(name) \in DOMAIN g.byName => g.byName[Folded(name)] = remote
      numbers == {n \in 2..MaxSuffix : Free(DeriveName(g.tag, display, n))}
      first == DeriveName(g.tag, display, None)
  IN  IF Free(first) THEN first
      ELSE IF numbers # {} THEN DeriveName(g.tag, display, Min(numbers))
      ELSE DeriveName(g.tag, remote, None)

(* A known identity keeps its account, whatever it is called now.          *)
Upsert(g, remote, display, account) ==
  LET known == remote \in DOMAIN g.byRemote
      name == AllocateName(g, display, remote)
      user == [account |-> IF known THEN g.byRemote[remote].account ELSE account, name |-> name]
      names == IF known THEN DropKey(g.byName, Folded(g.byRemote[remote].name)) ELSE g.byName
  IN  IF remote = <<>> \/ (known /\ g.byRemote[remote].name = name) THEN g
      ELSE [g EXCEPT !.byName = (Folded(name) :> remote) @@ names,
                     !.byRemote = (remote :> user) @@ @]

RemoveUser(g, remote) ==
  IF remote \notin DOMAIN g.byRemote THEN g
  ELSE [g EXCEPT !.byName = DropKey(@, Folded(g.byRemote[remote].name)),
                 !.byRemote = DropKey(@, remote)]

(* OriginChain: the bridges a message went through.                        *)
MayDeliverTo(hops, tag) == Len(hops) < MaxHops /\ ~Has(hops, tag)
PushHop(hops, tag) == IF MayDeliverTo(hops, tag) THEN Append(hops, tag) ELSE hops

-----------------------------------------------------------------------------
(* The link.  A message's type is a byte, and some carry a cookie; a type  *)
(* nobody knows is malformed.                                              *)

Hello == 1
Welcome == 2
Declined == 3
WithCookie == 4
Plain == 5
MessageTypes == 1..5

LinkHeader == 2
Frame(message) == <<Len(message) \div 16, Len(message) % 16>> \o message

(* decode: nothing yet, an error, or a message and what it took.           *)
DecodeLink(s) ==
  LET len == 16 * s[1] + s[2]
      body == SubSeq(s, LinkHeader + 1, LinkHeader + len)
  IN  IF Len(s) < LinkHeader THEN Wait
      ELSE IF len > MaxLinkFrame THEN Bad
      ELSE IF Len(s) < LinkHeader + len THEN Wait
      ELSE IF body = <<>> \/ body[1] \notin MessageTypes THEN Bad
      ELSE Item(body, LinkHeader + len)

(* recv, again and again until the connection ends: the limit is tried on  *)
(* what is pending and what was read, before a frame is taken off it.      *)
RECURSIVE RecvAll(_, _, _)
RecvAll(pending, chunks, out) ==
  LET next == DecodeLink(pending)
  IN  CASE next.is = "item" -> RecvAll(From(pending, next.used + 1), chunks, Append(out, next.value))
        [] next.is = "bad" -> [out |-> out, ended |-> "protocol"]
        [] next.is = "wait" ->
             IF chunks = <<>> THEN [out |-> out, ended |-> "closed"]
             ELSE IF Len(pending) + Len(Head(chunks)) > MaxLinkFrame + LinkHeader
                  THEN [out |-> out, ended |-> "protocol"]
             ELSE RecvAll(pending \o Head(chunks), Tail(chunks), out)

(* accept, the hub's side of the greeting: what it answers and whether it  *)
(* goes on, from the first message and the version the node gave.          *)
Accept(first, version, speaks) ==
  IF first # Hello THEN [answer |-> None, joined |-> FALSE]
  ELSE IF version > speaks THEN [answer |-> <<Welcome, speaks>>, joined |-> TRUE]
  ELSE IF version < 1 THEN [answer |-> <<Declined, speaks>>, joined |-> FALSE]
  ELSE [answer |-> <<Welcome, IF version < speaks THEN version ELSE speaks>>, joined |-> TRUE]

(* greet, the node's side.                                                 *)
Greet(answer) ==
  CASE answer = None -> [joined |-> FALSE, why |-> "closed", speaks |-> 0]
    [] answer # None /\ answer[1] = Welcome -> [joined |-> TRUE, why |-> None, speaks |-> answer[2]]
    [] answer # None /\ answer[1] = Declined -> [joined |-> FALSE, why |-> "refused", speaks |-> 0]
    [] OTHER -> [joined |-> FALSE, why |-> "out of turn", speaks |-> 0]

RetryDelay(attempt) ==
  LET doubled == 2 ^ (IF attempt < 6 THEN attempt ELSE 6)
  IN  IF doubled < RetryCeiling THEN doubled ELSE RetryCeiling

-----------------------------------------------------------------------------
(* Properties.                                                             *)

SomeTag == <<68>>
Remotes == {<<55>>, <<56>>, <<57>>}

Changes(g, displays) ==
  {Upsert(g, r, d, a) : <<r, d, a>> \in Remotes \X displays \X {1, 2}} \cup {RemoveUser(g, r) : r \in Remotes}

RECURSIVE Registries(_, _)
Registries(n, displays) ==
  IF n = 0 THEN {NewRegistry(SomeTag)}
  ELSE LET before == Registries(n - 1, displays)
       IN  before \cup UNION {Changes(g, displays) : g \in before}

(* Every user presented has a name of the bridge that fits, that no player *)
(* could register and that leads back to the user.                         *)
RegistryExact(g) ==
  /\ DOMAIN g.byName = {Folded(g.byRemote[r].name) : r \in DOMAIN g.byRemote}
  /\ \A r \in DOMAIN g.byRemote :
       LET name == g.byRemote[r].name IN
       /\ g.byName[Folded(name)] = r /\ UserNamed(g, name) = g.byRemote[r]
       /\ Len(name) <= MaxBridgedName
       /\ IsBridgedName(name) = g.tag /\ NameIsReserved(name) /\ ~ValidAccountName(name)

(* However the users of a bridge come, go and rename themselves, the two   *)
(* tables of its registry agree and a user that stays keeps its account:   *)
(* as long as a stem has numbers left, or the names made of remote ids are *)
(* nobody's choice.  A message goes through a bridge once and through few. *)
BridgedNamesHold ==
  LET words == {<<97, 98, 99>>, <<65, 98>>, <<200>>}
      digits == {<<55>>, <<97, 98, 99>>, <<97, 98, 100>>}
      Kept(g, displays) ==
        \A h \in Changes(g, displays) :
          /\ RegistryExact(h)
          /\ \A r \in DOMAIN g.byRemote \cap DOMAIN h.byRemote : h.byRemote[r].account = g.byRemote[r].account
  IN  /\ \A g \in Registries(3, words) : Kept(g, words)
      /\ \A g \in Registries(3, digits) :
           Cardinality(DOMAIN g.byRemote) < MaxSuffix => Kept(g, digits)
      /\ \A tags \in SeqOf(1..MaxHops + 1, MaxHops + 2) :
           LET hops == FoldLeft(PushHop, <<>>, tags)
           IN  /\ Len(hops) <= MaxHops /\ IsInjective(hops)
               /\ \A i \in DOMAIN hops : Has(tags, hops[i])
               /\ Len(hops) < MaxHops => \A i \in DOMAIN tags : Has(hops, tags[i])

(* s in pieces: one of first bytes, then as many of size as it takes.      *)
RECURSIVE Chopped(_, _, _)
Chopped(s, first, size) ==
  IF s = <<>> THEN <<>> ELSE <<CutTo(s, first)>> \o Chopped(From(s, first + 1), size, size)

Message(n) == [i \in 1..n |-> IF i = 1 THEN WithCookie ELSE 15]

(* However it is read, a link delivers what was sent, whole and in order,  *)
(* then ends: for a frame that more may follow in the same read, up to a   *)
(* read below the limit.  What exceeds the limit ends the link.  Both ends *)
(* of a greeting agree on whether they are joined, on a version both know, *)
(* and a node that fails to join waits longer, up to the ceiling.          *)
LinksAgree ==
  /\ \A a \in 1..MaxLinkFrame - LinkRead + 1, b \in 1..MaxLinkFrame + 1 :
       \A first \in 1..LinkRead, size \in 1..LinkRead :
         LET stream == Frame(Message(a)) \o Frame(Message(b))
             end == RecvAll(<<>>, Chopped(stream, first, size), <<>>)
         IN  end = IF b > MaxLinkFrame THEN [out |-> <<Message(a)>>, ended |-> "protocol"]
                   ELSE [out |-> <<Message(a), Message(b)>>, ended |-> "closed"]
  /\ \A first \in MessageTypes, version \in 0..3, speaks \in 1..2 :
       LET hub == Accept(first, version, speaks)
           node == Greet(hub.answer)
       IN  /\ hub.joined = node.joined
           /\ node.joined => node.speaks \in 1..speaks /\ node.speaks <= version
           /\ node.why # "out of turn"
  /\ \A n \in 0..9 : RetryDelay(n) \in 1..RetryCeiling /\ RetryDelay(n) <= RetryDelay(n + 1)

=============================================================================
