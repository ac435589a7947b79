------------------------ MODULE RewardBankDataProofs ------------------------
(***************************************************************************)
(* Lemmas about the calculations that the serial and the threaded server   *)
(* share: the row of a session, the last balance, an entry that is added.  *)
(***************************************************************************)
EXTENDS RewardBankData, TLAPS

(* A session that ends after it starts lasts at least a minute, and before *)
(* the last of its minutes is over it has not ended.                       *)
LEMMA DurationBounds ==
  ASSUME NEW s \in Sessions, EndsAfterStart(s)
  PROVE  /\ DurationMinutes(s) \in Nat \ {0}
         /\ \A m \in Nat : m < DurationMinutes(s) => ExhaustedAt(s, m) < s.end
<1>1. s.start \in Nat /\ s.end \in Nat
  BY InputsAssumption
<1> QED
  BY <1>1, SMT DEF EndsAfterStart, DurationMinutes, ExhaustedAt

(* The row of a session: rejected exactly without minutes, else covered by *)
(* at least one, at most the balance and the duration, and cut off exactly *)
(* when that leaves nothing.                                               *)
LEMMA CoverSessionRow ==
  ASSUME NEW s \in Sessions, EndsAfterStart(s), NEW b \in Int
  PROVE  LET row == CoverSession(s, b)
         IN  /\ row \in UsageSession
             /\ row.status = "processed" <=> row.minutes_covered > 0
             /\ row.minutes_covered > 0 => row.minutes_covered <= b
             /\ row.minutes_covered > 0 /\ row.balance_exhausted_at = NoTime
                  => row.minutes_covered = DurationMinutes(s)
             /\ row.minutes_covered > 0 /\ row.balance_exhausted_at # NoTime
                  => /\ s.start < row.balance_exhausted_at
                     /\ row.balance_exhausted_at < s.end
                     /\ row.minutes_covered = b
<1> DEFINE d == DurationMinutes(s)
           m == Lesser(b, d)
<1>1. s.start \in Nat /\ s.end \in Nat
  BY InputsAssumption
<1>2. d \in Nat \ {0} /\ \A k \in Nat : k < d => ExhaustedAt(s, k) < s.end
  BY DurationBounds
<1>3. CASE b <= 0
  BY <1>3 DEF CoverSession, RejectedRow, UsageSession
<1>4. CASE b > 0
  <2> HIDE DEF d
  <2>1. /\ m \in Nat \ {0} /\ m <= b /\ m <= d
        /\ m < d => m = b
    BY <1>2, <1>4 DEF Lesser
  <2>2. CoverSession(s, b) = ProcessedRow(s, m, m < d)
    BY <1>4 DEF CoverSession, d
  <2>3. /\ ExhaustedAt(s, m) \in Nat
        /\ s.start < ExhaustedAt(s, m)
        /\ m < d => ExhaustedAt(s, m) < s.end
        /\ ExhaustedAt(s, m) # NoTime
    <3>1. ExhaustedAt(s, m) = s.start + 60 * m
      BY DEF ExhaustedAt
    <3> HIDE DEF m
    <3> QED
      BY <1>1, <1>2, <2>1, <3>1, SMT DEF NoTime
  <2> HIDE DEF m
  <2>4. CASE m < d
    <3>1. CoverSession(s, b) = [status |-> "processed", minutes_covered |-> m,
                                balance_exhausted_at |-> ExhaustedAt(s, m)]
      BY <2>2, <2>4 DEF ProcessedRow
    <3> QED
      BY <1>2, <2>1, <2>3, <2>4, <3>1 DEF UsageSession
  <2>5. CASE ~(m < d)
    <3>1. CoverSession(s, b) = [status |-> "processed", minutes_covered |-> m,
                                balance_exhausted_at |-> NoTime]
      BY <2>2, <2>5 DEF ProcessedRow
    <3>2. m = d
      BY <1>2, <2>1, <2>5
    <3> QED
      BY <2>1, <3>1, <3>2 DEF UsageSession, d
  <2> QED
    BY <2>4, <2>5
<1> QED
  BY <1>3, <1>4

(* get_balance returns an integer.                                         *)
LEMMA BalanceType ==
  ASSUME NEW entries \in Seq(LedgerEntry)
  PROVE  GetBalance(entries) \in Int
<1>1. CASE entries = <<>>
  BY <1>1 DEF GetBalance
<1>2. CASE entries # <<>>
  <2>1. Len(entries) \in DOMAIN entries /\ entries[Len(entries)] \in LedgerEntry
    BY <1>2
  <2> QED
    BY <1>2, <2>1 DEF GetBalance, LedgerEntry
<1> QED
  BY <1>1, <1>2

(* Adding an entry adds its position to the entries of its type and        *)
(* source, and to no others.                                               *)
LEMMA EntriesOfAppend ==
  ASSUME NEW entries \in Seq(LedgerEntry), NEW e \in LedgerEntry, NEW entry_type, NEW source
  PROVE  EntriesOf(Append(entries, e), entry_type, source) =
           EntriesOf(entries, entry_type, source) \cup
             (IF e.entry_type = entry_type /\ e.source = source
              THEN {Len(entries) + 1} ELSE {})
<1> DEFINE longer == Append(entries, e)
           n == Len(entries) + 1
<1>1. /\ DOMAIN longer = 1..n /\ DOMAIN entries = 1..Len(entries) /\ Len(entries) \in Nat
      /\ \A i \in DOMAIN entries : longer[i] = entries[i]
      /\ longer[n] = e
  OBVIOUS
<1>2. DOMAIN longer = DOMAIN entries \cup {n} /\ n \notin DOMAIN entries
  BY <1>1
<1> HIDE DEF longer, n
<1>3. EntriesOf(longer, entry_type, source) =
        EntriesOf(entries, entry_type, source) \cup
          (IF e.entry_type = entry_type /\ e.source = source THEN {n} ELSE {})
  BY <1>1, <1>2 DEF EntriesOf
<1> QED
  BY <1>3 DEF longer, n
=============================================================================
