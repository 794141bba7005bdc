--------------------------------- MODULE Names ---------------------------------
(***************************************************************************)
(* The names clients send and what they are taken for: chat text and       *)
(* channel names (bnetcc-proto/src/chat.rs), account names                 *)
(* (bnetcc-storage/src/lib.rs, node.rs, session.rs), characters (d2.rs),   *)
(* files (bnftp.rs, session.rs) and attribute keys with their access       *)
(* levels (bnetcc-storage/src/attr.rs).  Bytes are real, lengths scaled; a *)
(* byte above 127 is one that is not UTF-8.                                *)
(***************************************************************************)
EXTENDS Wire

CONSTANTS
  ChatTextMax, ChannelNameMax,
  AccountMin, AccountMax,
  CharacterMin, CharacterMax

Sp == 32
Dot == 46
Slash == 47
Colon == 58
At == 64
Hash == 35
Star == 42
Backslash == 92
Dash == 45
Del == 127

Lower(b) == IF b \in 65..90 THEN b + 32 ELSE b
Folded(s) == [i \in DOMAIN s |-> Lower(s[i])]
Letter(b) == Lower(b) \in 97..122
Digit(b) == b \in 48..57
Printable(b) == b >= 32 /\ b # Del
Has(s, b) == \E i \in DOMAIN s : s[i] = b
CutTo(s, max) == SubSeq(s, 1, IF Len(s) < max THEN Len(s) ELSE max)

(* The last place of b in s, 0 when there is none.                         *)
LastOf(s, b) == SelectLastInSeq(s, LAMBDA c : c = b)

-----------------------------------------------------------------------------
(* chat.rs                                                                 *)

SanitizeChatText(text) == CutTo(SelectSeq(text, Printable), ChatTextMax - 1)

\* mutant: a run of spaces is not collapsed
NormalizeKeepsSpaces(name) ==
  CutTo(Folded(SelectSeq(name, Printable)), ChannelNameMax)

(* Spaces are kept singly, and neither at the start nor at the end.        *)
NormalizeChannelName(name) ==
  LET s == SelectSeq(name, Printable)
      kept == SelectSeq([i \in DOMAIN s |-> i], LAMBDA i : s[i] # Sp \/ (i > 1 /\ s[i - 1] # Sp))
      out == [k \in DOMAIN kept |-> Lower(s[kept[k]])]
  IN  CutTo(IF out # <<>> /\ Last(out) = Sp THEN Front(out) ELSE out, ChannelNameMax)

-----------------------------------------------------------------------------
(* Account names.                                                          *)

SplitRealm(name) ==
  LET at == LastOf(name, At)
  IN  IF at = 0 THEN [bare |-> name, realm |-> None]
      ELSE [bare |-> SubSeq(name, 1, at - 1), realm |-> From(name, at + 1)]

Visible(s) == \A i \in DOMAIN s : s[i] \in 33..126

ValidAccountName(name) ==
  LET n == SplitRealm(name)
  IN  /\ n.realm # None => Len(n.realm) \in 1..AccountMax /\ Visible(n.realm)
      /\ Len(n.bare) \in AccountMin..AccountMax /\ Visible(n.bare)
      /\ \E i \in DOMAIN n.bare : Letter(n.bare[i]) \/ Digit(n.bare[i])
      /\ ~Has(n.bare, Colon)

(* What a logon packet calls the account, and what Warcraft III's realm    *)
(* makes of it; a name that already has a realm is refused.                *)
ReadUsername(raw) == CutTo(raw, AccountMax)
QualifiedName(bare, realm) == IF Has(bare, At) THEN Error ELSE bare \o <<At>> \o realm

(* claim_name: the lowest free of base, base#2, base#3...                  *)
Numbered(base, n) == IF n = 1 THEN base ELSE base \o <<Hash, 48 + n>>
ClaimName(taken, base) ==
  Numbered(base, CHOOSE n \in 1..9 : /\ Folded(Numbered(base, n)) \notin taken
                                     /\ \A m \in 1..n - 1 : Folded(Numbered(base, m)) \in taken)

(* Who a display name stands for: moderation, the operator of a channel    *)
(* named after its owner, and the count of players seen, each in its way.  *)
BaseName(name) == IF Has(name, Hash) THEN SubSeq(name, 1, SelectInSeq(name, LAMBDA c : c = Hash) - 1) ELSE name
ChannelBaseName(name) ==
  LET at == LastOf(name, Hash)
  IN  IF at = 0 \/ at = Len(name) \/ \E i \in at + 1..Len(name) : ~Digit(name[i]) THEN name
      ELSE SubSeq(name, 1, at - 1)
AccountBehind(name) ==
  LET base == BaseName(name) IN Folded(From(base, LastOf(base, Star) + 1))

ChatName(character, owner) == character \o <<Star>> \o owner

ValidCharacterName(name) ==
  LET marks == {i \in DOMAIN name : ~Letter(name[i])}
  IN  /\ Len(name) \in CharacterMin..CharacterMax
      /\ \A i \in marks : name[i] \in {Dash, 95} /\ i # 1 /\ i # Len(name)
      /\ Cardinality(marks) <= 1

-----------------------------------------------------------------------------
(* Files: what a client asks for, and the version archive it is told of.   *)

SanitizeFilename(raw) ==
  IF \/ Len(raw) \notin 1..MaxFilename
     \/ \E i \in DOMAIN raw : ~Printable(raw[i]) \/ raw[i] > 127 \/ raw[i] \in {Slash, Backslash, Colon}
     \/ \E i \in 1..Len(raw) - 1 : raw[i] = Dot /\ raw[i + 1] = Dot
     \/ Head(raw) = Dot \/ Last(raw) \in {Dot, Sp}
  THEN None ELSE raw

Mpq(form, platform, n) == [form |-> form, platform |-> platform, n |-> n]

VersionMpqName(platform, game, versionByte) ==
  IF \/ game = "war3" /\ (versionByte = None \/ versionByte > 26)
     \/ game = "d2"
  THEN Mpq("ver-", platform, 1) ELSE Mpq("old", platform, 1)

ServedVersionMpq(name, files) ==
  IF name.form # "ver-" \/ name \in files THEN name
  ELSE LET there == {n \in 0..7 : Mpq("ver-", name.platform, n) \in files}
       IN  IF there = {} THEN name ELSE Mpq("ver-", name.platform, Min(there))

-----------------------------------------------------------------------------
(* Attribute keys (segments joined by a backslash) and their access.       *)

AttrKey(raw) ==
  LET ends == {i \in DOMAIN raw : raw[i] # Sp}
      kept == IF ends = {} THEN <<>> ELSE SubSeq(raw, Min(ends), Max(ends))
  IN  [i \in DOMAIN kept |-> IF kept[i] = Slash THEN Backslash ELSE Lower(kept[i])]

Permits(level, actor, owner) ==
  CASE level = "any" -> TRUE
    [] level = "owner" -> actor \in {"internal", "admin", owner}
    [] level = "internal" -> actor = "internal"

PUBLIC == [read |-> "any", write |-> "owner"]
PRIVATE == [read |-> "owner", write |-> "owner"]
SERVER_PUBLIC == [read |-> "any", write |-> "internal"]
SECRET == [read |-> "internal", write |-> "internal"]

(* AttrSchema::set: one rule per prefix.                                   *)
SetRule(rules, prefix, acl) ==
  {r \in rules : r.prefix # AttrKey(prefix)} \cup {[prefix |-> AttrKey(prefix), acl |-> acl]}

(* The first match of the rules, longest prefix first.                     *)
Under(key, prefix) == key = prefix \/ IsPrefix(Append(prefix, Backslash), key)
AclOf(rules, key) ==
  LET found == {r \in rules : Under(key, r.prefix)}
  IN  IF found = {} THEN PRIVATE
      ELSE (CHOOSE r \in found : \A q \in found : Len(q.prefix) <= Len(r.prefix)).acl

(* s stands for System, s\p and s\v for its credentials, r for profile.    *)
DefaultSchema ==
  LET secrets == SetRule(SetRule({}, <<83, Backslash, 80>>, SECRET), <<83, Backslash, 86>>, SECRET)
  IN  SetRule(SetRule(secrets, <<83>>, SERVER_PUBLIC), <<82>>, PUBLIC)

FilterReadable(attrs, actor, owner) ==
  {k \in attrs : Permits(AclOf(DefaultSchema, k).read, actor, owner)}
PartitionWritable(attrs, actor, owner) ==
  LET ok == {k \in attrs : Permits(AclOf(DefaultSchema, k).write, actor, owner)}
  IN  [ok |-> ok, denied |-> attrs \ ok]

-----------------------------------------------------------------------------
(* Properties.                                                             *)

(* The words of a channel name, which is what two spellings of it share.   *)
Words(name) ==
  LET s == SelectSeq(name, Printable)
      starts == {i \in DOMAIN s : s[i] # Sp /\ (i = 1 \/ s[i - 1] = Sp)}
      End(i) == Min({j \in i..Len(s) : j = Len(s) \/ s[j + 1] = Sp})
  IN  [k \in 1..Cardinality(starts) |->
         LET i == CHOOSE i \in starts : Cardinality({j \in starts : j < i}) = k - 1
         IN  Folded(SubSeq(s, i, End(i)))]

(* Two requests for a channel mean the same channel exactly when they have *)
(* the same words, whatever their case, spaces and control bytes, up to    *)
(* the length a name is cut at.                                            *)
ChannelKeysMatch ==
  LET spellings == SeqOf({0, Sp, 65, 97}, ChannelNameMax + 1)
      short == {s \in spellings : Len(s) < ChannelNameMax}
  IN  \A s \in spellings, t \in short :
        Words(s) = Words(t) <=> NormalizeChannelName(s) = NormalizeChannelName(t)

(* Chat text, and a name in it, reaches the other clients without control  *)
(* bytes and shorter than their buffers, however often it is relayed.      *)
TextStaysClean ==
  \A text \in SeqOf({0, 31, Sp, Del, 200}, ChatTextMax + 1) :
    LET sent == SanitizeChatText(text)
    IN  /\ SanitizeChatText(sent) = sent
        /\ ReadCstr(WriteCstr(sent), ChatTextMax) = sent /\ Len(WriteCstr(sent)) <= ChatTextMax

(* Where a file system opens a name: the path from the serving directory,  *)
(* with either separator, drives, ".." and the trailing dots and spaces    *)
(* that Windows drops; Error when it is elsewhere.                         *)
Opened(raw) ==
  LET name == IF FirstNul(raw) = 0 THEN raw ELSE SubSeq(raw, 1, FirstNul(raw) - 1)
      cuts == <<0>> \o SelectSeq([i \in DOMAIN name |-> i], LAMBDA i : name[i] \in {Slash, Backslash})
                \o <<Len(name) + 1>>
      Stripped(s) == LET keep == {i \in DOMAIN s : s[i] \notin {Dot, Sp}}
                     IN  IF s \in {<<Dot>>, <<Dot, Dot>>} \/ keep = {} THEN s ELSE SubSeq(s, 1, Max(keep))
      parts == [i \in 1..Len(cuts) - 1 |-> Stripped(SubSeq(name, cuts[i] + 1, cuts[i + 1] - 1))]
      Step(dir, part) ==
        IF dir = Error THEN Error
        ELSE IF part \in {<<>>, <<Dot>>} THEN dir
        ELSE IF part = <<Dot, Dot>> THEN (IF dir = <<>> THEN Error ELSE Front(dir))
        ELSE Append(dir, part)
      path[i \in 0..Len(parts)] == IF i = 0 THEN <<>> ELSE Step(path[i - 1], parts[i])
  IN  IF Has(name, Colon) \/ (name # <<>> /\ Head(name) \in {Slash, Backslash}) THEN Error
      ELSE path[Len(parts)]

(* A name the file service accepts opens the file of exactly that name in  *)
(* the serving directory, on either kind of file system.                   *)
FilesStayInside ==
  \A raw \in SeqOf({0, Sp, Dot, Slash, Backslash, Colon, 97, 200}, MaxFilename + 1) :
    SanitizeFilename(raw) # None => Opened(raw) = <<raw>>

(* A client is told of a version archive the operator has, if there is one *)
(* for its platform under any number.                                      *)
ArchiveIsThere ==
  \A files \in SUBSET {Mpq("ver-", "mac", n) : n \in {0, 1, 7}}, game \in {"d2", "war3", "star"} :
    LET name == VersionMpqName("mac", game, None)
        served == ServedVersionMpq(name, files)
    IN  name.form = "ver-" /\ files # {} => served \in files

(* A name that a player can register stands for one account however it is  *)
(* shown: with its realm, with the number of a second session or behind a  *)
(* character, as long as it has no # or * of its own.  It also survives    *)
(* being sent back as a string.                                            *)
AccountsReadBack ==
  LET names == SeqOf({0, Sp, Hash, Star, At, Colon, 49, 65, 97}, AccountMax + 1)
      plain == {n \in names : ValidAccountName(n) /\ ~Has(n, At)}
      clear == {n \in plain : ~Has(n, Hash) /\ ~Has(n, Star)}
  IN  /\ \A n \in names, realm \in {<<>>, <<98>>} :
           LET q == QualifiedName(n, realm)
           IN  /\ q = Error <=> Has(n, At)
               /\ q # Error => /\ SplitRealm(q) = [bare |-> n, realm |-> realm]
                               /\ ValidAccountName(q) <=> n \in plain /\ realm # <<>>
      /\ \A n \in plain : ReadCstr(WriteCstr(n), AccountMax) = n /\ ReadUsername(n) = n
      /\ \A n \in clear : \A taken \in SUBSET {Folded(Numbered(n, m)) : m \in 1..3} :
           LET shown == ClaimName(taken, n)
           IN  /\ Folded(shown) \notin taken
               /\ BaseName(shown) = n /\ ChannelBaseName(shown) = n /\ AccountBehind(shown) = Folded(n)
      /\ \A n \in clear, c \in {<<97, Dash, 98>>, <<98, 97>>} :
           ValidCharacterName(c) => AccountBehind(ClaimName({Folded(ChatName(c, n))}, ChatName(c, n))) = Folded(n)

(* However a key is spelled, a client never reads or writes a credential;  *)
(* it may write what it owns and only that, and the answer to a write      *)
(* accounts for every key of it.                                           *)
CredentialsUnreachable ==
  \A raw \in SeqOf({Sp, Slash, Backslash, 80, 83, 112, 115, 82}, 4) :
    LET key == AttrKey(raw)
        secret == Under(key, <<115, Backslash, 112>>)
        reserved == Under(key, <<115>>)
    IN  \A actor \in {"other", "owner", "admin"} :
          LET write == PartitionWritable({key}, actor, "owner")
          IN  /\ secret => FilterReadable({key}, actor, "owner") = {}
              /\ reserved => write.denied = {key}
              /\ ~reserved => (write.ok = {key} <=> actor # "other")

NamesUnambiguous ==
  ChannelKeysMatch /\ TextStaysClean /\ FilesStayInside /\ ArchiveIsThere /\ AccountsReadBack /\ CredentialsUnreachable
=============================================================================
