--------------------------------- MODULE Ladder ---------------------------------
(***************************************************************************)
(* The StarCraft and Warcraft II ladder (crates/bnetcc-core/src/ladder.rs):*)
(* leagues, ratings, standings and the page of them a client asks for.     *)
(*                                                                         *)
(* A name is a natural number, its place in the case-folded alphabet.      *)
(* Elo's expected score is a power of ten in floating point; here it is a  *)
(* table by the difference of the ratings, in thousandths, and the rest of *)
(* the rating is computed in thousandths.                                  *)
(***************************************************************************)
EXTENDS Integers, Sequences, FiniteSets, SequencesExt

CONSTANTS
  ExpectedBy,      \* expected score by how much higher the opponent's rating is
  Saturation,      \* difference from which on it stays the same
  LadderMinWins,   \* LADDER_MIN_WINS
  MaxRank,         \* MAX_RANK
  PageMax          \* LADDER_PAGE

ASSUME LadderAssumption ==
  Saturation \in Nat /\ ExpectedBy \in [-Saturation .. Saturation -> 0 .. 1000]

StartRating == 1000
KFactor == 32

(* League::from_code and index: anything but 1 and 3 is a normal game.     *)
LeagueOf(code) == IF code \in {1, 3} THEN code ELSE 0

(* GameOutcome::leaf; the codes of SID_GAMERESULT are 1 to 4.              *)
OutcomeOf(code) ==
  IF code \in 1 .. 4 THEN <<"wins", "losses", "draws", "disconnects">>[code] ELSE "none"

Score(outcome) == CASE outcome = "wins" -> 1000 [] outcome = "draws" -> 500 [] OTHER -> 0

(* f64::round of n / 1000: halves away from zero.                          *)
Rounded(n) == IF n >= 0 THEN (n + 500) \div 1000 ELSE -((-n + 500) \div 1000)

AtLeast(least, n) == IF n < least THEN least ELSE n

Expected(rating, opponent) ==
  LET d == opponent - rating
  IN  ExpectedBy[IF d > Saturation THEN Saturation ELSE AtLeast(-Saturation, d)]

RatingAfter(rating, opponent, outcome) ==
  AtLeast(1, Rounded(1000 * rating + KFactor * (Score(outcome) - Expected(rating, opponent))))

(* The mean of n ratings as the session takes it: truncated, the start     *)
(* rating for none.                                                        *)
Mean(sum, n) == IF n = 0 THEN StartRating ELSE sum \div n

-----------------------------------------------------------------------------
(* Standings.                                                              *)

GamesOf(row) == row.wins + row.losses + row.disconnects

(* SortMethod: 2 most wins, 3 most games, anything else highest rating.    *)
SortKey(sort, row) ==
  CASE sort = 2 -> row.wins [] sort = 3 -> GamesOf(row) [] OTHER -> row.rating

Ahead(sort, a, b) ==
  \/ SortKey(sort, a) > SortKey(sort, b)
  \/ SortKey(sort, a) = SortKey(sort, b)
     /\ \/ a.rating > b.rating
        \/ a.rating = b.rating /\ a.name < b.name

Truncate(s, n) == SubSeq(s, 1, IF Len(s) < n THEN Len(s) ELSE n)

Standings(rows, sort) ==
  Truncate(SetToSortSeq({r \in rows : GamesOf(r) > 0}, LAMBDA a, b : Ahead(sort, a, b)), MaxRank)

(* SID_FINDLADDERUSER: the 0-based rank, -1 (0xFFFFFFFF) for no rank.      *)
RankOf(standings, name) ==
  LET at == {i \in DOMAIN standings : standings[i].name = name}
  IN  IF at = {} THEN -1 ELSE (CHOOSE i \in at : \A j \in at : i <= j) - 1

(* SID_GETLADDERDATA: the rows from the 0-based rank `start` on, with their*)
(* ranks.                                                                  *)
LadderPage(standings, start, count) ==
  LET rest == SubSeq(standings, start + 1, Len(standings))
      page == Truncate(rest, IF count < PageMax THEN count ELSE PageMax)
  IN  [i \in DOMAIN page |-> [rank |-> start + i - 1, row |-> page[i]]]
=============================================================================
