------------------------ MODULE PackageFormatProofs ------------------------
(***************************************************************************)
(* Proofs about PackageFormat for archives of any length, any members,     *)
(* keys and faults, and whatever order the sort leaves equal paths in:     *)
(* trust is earned by a signing of the bytes the archive has to show, a    *)
(* package signed last verifies, and one that verifies opens to the        *)
(* manifest that was signed.                                               *)
(***************************************************************************)
EXTENDS PackageFormat, SequenceTheorems, FiniteSetTheorems, WellFoundedInduction, TLAPS

Member(S) == [path : Paths, content : S]
EntriesOver(S) == Seq(Member(S))
Held(es) == {es[i].content : i \in 1 .. Len(es)}

(* A sequence of members, whatever these contain.                           *)
Archive(es) == es \in EntriesOver(Held(es)) /\ Len(es) <= MaxEntries

(* Every signature in the archive was made by Sign: a caller adds none of    *)
(* its own, and what changes on the way becomes none.                       *)
Made(ss, key, over) == \E s \in ss : s.key = key /\ Signable(s.members) = over
Signed(ss, e) == e.content.kind = "sig" => Made(ss, e.content.key, e.content.over)

Recorded == \A s \in signings : Archive(s.members)

FormatInv == TypeOK /\ Archive(entries) /\ Recorded /\ \A i \in 1 .. Len(entries) : Signed(signings, entries[i])

(* What callers and faults put at a path is never a signature.               *)
LEMMA ContentsUnsigned ==
    ASSUME NEW p \in Paths, NEW c \in Contents(p)
    PROVE  c.kind # "sig"
<1>1. \/ c = Malformed
      \/ \E n \in Names : c = Manifest(n)
      \/ \E k \in Keys : c = PublicKey(k)
      \/ \E b \in Blobs : c = Blob(b)
    BY DEF Contents
<1>2. QED
    BY <1>1 DEF Manifest, Malformed, PublicKey, Blob

LEMMA ShapeOf ==
    ASSUME NEW S, NEW es \in EntriesOver(S)
    PROVE  es \in EntriesOver(Held(es))
<1>1. Len(es) \in Nat /\ \A i \in 1 .. Len(es) : es[i] \in Member(S)
    BY ElementOfSeq, LenProperties DEF EntriesOver
<1>2. \A i \in 1 .. Len(es) : es[i] \in Member(Held(es))
    BY <1>1 DEF Member, Held
<1>3. es = [i \in 1 .. Len(es) |-> es[i]]
    BY LenProperties DEF EntriesOver
<1>4. es \in Seq(Member(Held(es)))
    BY <1>1, <1>2, <1>3, IsASeq
<1>5. QED
    BY <1>4 DEF EntriesOver

(* One more content may stand in the members of a sequence.                  *)
LEMMA Widened ==
    ASSUME NEW S, NEW U, S \subseteq U, NEW es \in EntriesOver(S)
    PROVE  es \in EntriesOver(U)
<1>1. Member(S) \subseteq Member(U)
    BY DEF Member
<1>2. QED
    BY <1>1, SeqMonotonic DEF EntriesOver

(* Every nonempty set of natural numbers has a least element: what every     *)
(* CHOOSE of a first entry rests on.                                        *)
LEMMA HasLeast ==
    ASSUME NEW S, S \subseteq Nat, S # {}
    PROVE  \E x \in S : \A y \in S : x <= y
<1> DEFINE R == OpToRel(<, Nat)
<1>1. \A x, y \in Nat : x < y => <<x, y>> \in R
    BY DEF OpToRel
<1>2. IsWellFoundedOn(R, Nat)
    BY NatLessThanWellFounded, Zenon
<1> HIDE DEF R
<1>3. PICK x \in S : \A y \in S : ~(<<y, x>> \in R)
    BY <1>2, WFMin
<1>4. \A y \in S : ~(y < x)
    BY <1>1, <1>3, Zenon
<1>5. QED
    BY <1>4

(* read_entry and signature_status find the first entry at a path.           *)
LEMMA ReadEntryFinds ==
    ASSUME NEW S, NEW es \in EntriesOver(S), NEW path, Has(es, path)
    PROVE  \E i \in 1 .. Len(es) : es[i].path = path /\ ReadEntry(es, path) = es[i].content
<1> DEFINE At == {i \in 1 .. Len(es) : es[i].path = path}
<1>1. At \subseteq Nat /\ At # {}
    BY DEF EntriesOver, Has
<1>2. PICK i \in At : \A j \in At : i <= j
    <2> HIDE DEF At
    <2> QED BY <1>1, HasLeast
<1>3. \E k \in 1 .. Len(es) :
          /\ es[k].path = path
          /\ \A j \in 1 .. Len(es) : es[j].path = path => k <= j
    BY <1>2
<1>4. QED
    BY <1>3 DEF ReadEntry

LEMMA FormatInit == Init => FormatInv
<1> SUFFICES ASSUME Init PROVE FormatInv
    OBVIOUS
<1>1. entries = <<>> /\ signings = {} /\ Len(entries) = 0
    BY DEF Init
<1>2. Archive(entries)
    BY <1>1, EmptySeq, FormatAssumption DEF Archive, EntriesOver
<1>3. SignatureStatus(entries) \in Status
    BY DEF SignatureStatus, Status
<1>4. store \in KnownKeys /\ built \in BOOLEAN /\ faults = 0 /\ fresh \in BOOLEAN
    BY DEF Init, KnownKeys
<1>5. TypeOK
    BY <1>1, <1>3, <1>4, FormatAssumption DEF TypeOK
<1>6. QED
    BY <1>1, <1>2, <1>5 DEF FormatInv, Recorded

(* What every step has to show.                                              *)
LEMMA EntriesChanged ==
    ASSUME NEW S, entries' \in EntriesOver(S), Len(entries') <= MaxEntries,
           built' => \A i \in 1 .. Len(entries') : entries'[i].path \in Proper,
           built' \in BOOLEAN, faults' \in 0 .. MaxFaults, faults' > 0 => built',
           store' \in KnownKeys, fresh' \in BOOLEAN, Recorded',
           \A i \in 1 .. Len(entries') : Signed(signings', entries'[i])
    PROVE  FormatInv'
<1>1. Archive(entries)'
    BY ShapeOf DEF Archive
<1>2. SignatureStatus(entries)' \in Status
    BY DEF SignatureStatus, Status
<1>3. \A i \in 1 .. Len(entries') : entries'[i] \in Member(S)
    BY ElementOfSeq DEF EntriesOver
<1>4. TypeOK'
    BY <1>2, <1>3 DEF TypeOK, Member
<1>5. QED
    BY <1>1, <1>4 DEF FormatInv

(* sign adds the signature and the key behind what there is.                 *)
LEMMA SignAppends ==
    ASSUME FormatInv, NEW k \in Keys, Sign(k)
    PROVE  /\ Len(entries) \in Nat
           /\ \E S : entries' \in EntriesOver(S)
           /\ Len(entries') = Len(entries) + 2
           /\ entries'[Len(entries) + 1] = Entry(SignaturePath, Signature(k, Signable(entries)))
           /\ entries'[Len(entries) + 2] = Entry(PublicKeyPath, PublicKey(k))
           /\ \A i \in 1 .. Len(entries) : entries'[i] = entries[i]
<1> DEFINE sig == Signature(k, Signable(entries))
           H == Held(entries) \cup {sig, PublicKey(k)}
           T == Member(H)
           two == <<Entry(SignaturePath, sig), Entry(PublicKeyPath, PublicKey(k))>>
<1>1. entries \in Seq(T) /\ Len(entries) \in Nat
    <2>1. entries \in EntriesOver(Held(entries)) /\ Held(entries) \subseteq H
        BY DEF FormatInv, Archive
    <2>2. entries \in EntriesOver(H)
        <3> HIDE DEF H
        <3> QED BY <2>1, Widened
    <2>3. QED
        BY <2>2, LenProperties DEF EntriesOver
<1>2. two \in Seq(T) /\ Len(two) = 2
    <2>1. two[1] \in T /\ two[2] \in T
        <3> HIDE DEF sig
        <3> QED BY DEF Entry, Member, Paths, Proper, SignatureMembers
    <2>2. QED
        BY <2>1
<1>3. entries' = entries \o two
    BY DEF Sign
<1>4. /\ two[1] = Entry(SignaturePath, sig) /\ two[2] = Entry(PublicKeyPath, PublicKey(k))
      /\ entries' \in Seq(T) => \E S : entries' \in EntriesOver(S)
    BY DEF EntriesOver
<1> HIDE DEF two, H, T, sig
<1>5. /\ entries' \in Seq(T) /\ Len(entries') = Len(entries) + Len(two)
      /\ \A i \in 1 .. Len(entries) + Len(two) :
            entries'[i] = IF i <= Len(entries) THEN entries[i] ELSE two[i - Len(entries)]
    BY <1>1, <1>2, <1>3, ConcatProperties
<1>6. /\ entries'[Len(entries) + 1] = two[1] /\ entries'[Len(entries) + 2] = two[2]
      /\ \A i \in 1 .. Len(entries) : entries'[i] = entries[i]
    BY <1>1, <1>2, <1>5
<1>7. QED
    BY <1>1, <1>2, <1>4, <1>5, <1>6 DEF sig

(* Two neighbours trade places.                                              *)
LEMMA SwapTrades ==
    ASSUME NEW T, NEW es \in Seq(T), NEW i \in 1 .. Len(es), NEW k \in 1 .. Len(es), i # k,
           NEW fs, fs = [es EXCEPT ![i] = es[k], ![k] = es[i]]
    PROVE  /\ fs \in Seq(T) /\ Len(fs) = Len(es)
           /\ fs[i] = es[k] /\ fs[k] = es[i]
           /\ \A j \in 1 .. Len(es) : j # i /\ j # k => fs[j] = es[j]
           /\ \A j \in 1 .. Len(es) : \E l \in 1 .. Len(es) : fs[j] = es[l]
<1>1. es[i] \in T /\ es[k] \in T
    BY ElementOfSeq
<1> DEFINE gs == [es EXCEPT ![i] = es[k]]
<1>2. gs \in Seq(T) /\ Len(gs) = Len(es) /\ gs[i] = es[k] /\ \A j \in 1 .. Len(es) : j # i => gs[j] = es[j]
    BY <1>1, ExceptSeq
<1>3. fs = [gs EXCEPT ![k] = es[i]]
    OBVIOUS
<1> HIDE DEF gs
<1>4. fs \in Seq(T) /\ Len(fs) = Len(gs) /\ fs[k] = es[i] /\ \A j \in 1 .. Len(gs) : j # k => fs[j] = gs[j]
    BY <1>1, <1>2, <1>3, ExceptSeq
<1>5. QED
    BY <1>2, <1>4

LEMMA FormatStep == FormatInv /\ [Next]_vars => FormatInv'
<1> SUFFICES ASSUME FormatInv, [Next]_vars PROVE FormatInv'
    OBVIOUS
<1> DEFINE H == Held(entries)
<1>0. entries \in EntriesOver(H)
    BY DEF FormatInv, Archive
<1> HIDE DEF H
<1>1. /\ Len(entries) \in Nat /\ Len(entries) <= MaxEntries
      /\ MaxEntries \in Nat /\ MaxFaults \in Nat
      /\ built \in BOOLEAN /\ faults \in 0 .. MaxFaults /\ (faults > 0 => built)
      /\ store \in KnownKeys /\ fresh \in BOOLEAN
      /\ \A i \in 1 .. Len(entries) :
            Signed(signings, entries[i]) /\ entries[i].path \in Paths /\ (built => entries[i].path \in Proper)
      /\ Recorded
    BY <1>0, FormatAssumption, LenProperties DEF FormatInv, TypeOK, EntriesOver, Paths
<1>r. ASSUME UNCHANGED signings
      PROVE  Recorded' /\ \A e : Signed(signings, e) => Signed(signings', e)
    BY <1>1, <1>r DEF Recorded
<1>2. ASSUME NEW p \in Paths, NEW c \in Contents(p), AddFile(p, c) PROVE FormatInv'
    <2>1. /\ entries' = Append(entries, Entry(p, c)) /\ Len(entries) < MaxEntries
          /\ UNCHANGED <<built, faults, store, signings>> /\ fresh' \in BOOLEAN /\ ~built'
        BY <1>2 DEF AddFile
    <2>2. entries \in EntriesOver(H \cup {c})
        BY <1>0, Widened
    <2>3. Entry(p, c) \in Member(H \cup {c})
        BY DEF Entry, Member
    <2>4. /\ entries' \in EntriesOver(H \cup {c}) /\ Len(entries') = Len(entries) + 1
          /\ entries'[Len(entries) + 1] = Entry(p, c)
          /\ \A i \in 1 .. Len(entries) : entries'[i] = entries[i]
        BY <2>1, <2>2, <2>3, AppendProperties DEF EntriesOver
    <2>5. \A i \in 1 .. Len(entries') : Signed(signings', entries'[i])
        <3>1. Signed(signings', entries'[Len(entries) + 1])
            BY <2>4, ContentsUnsigned DEF Signed, Entry
        <3>2. \A i \in 1 .. Len(entries) : Signed(signings', entries'[i])
            BY <1>1, <1>r, <2>1, <2>4
        <3>3. QED
            BY <1>1, <2>4, <3>1, <3>2
    <2>6. QED
        BY <1>1, <1>r, <2>1, <2>4, <2>5, EntriesChanged
<1>3. ASSUME NEW k \in Keys, Sign(k) PROVE FormatInv'
    <2>1. /\ Len(entries) + 2 <= MaxEntries
          /\ signings' = signings \cup {[key |-> k, members |-> entries]}
          /\ UNCHANGED <<built, faults, store>> /\ fresh' \in BOOLEAN /\ ~built'
        BY <1>3 DEF Sign
    <2>2. PICK S :
            /\ entries' \in EntriesOver(S) /\ Len(entries') = Len(entries) + 2
            /\ entries'[Len(entries) + 1].content = Signature(k, Signable(entries))
            /\ entries'[Len(entries) + 2].content = PublicKey(k)
            /\ \A i \in 1 .. Len(entries) : entries'[i] = entries[i]
        <3>1. /\ Entry(SignaturePath, Signature(k, Signable(entries))).content
                    = Signature(k, Signable(entries))
              /\ Entry(PublicKeyPath, PublicKey(k)).content = PublicKey(k)
            BY DEF Entry
        <3>2. PICK S : entries' \in EntriesOver(S)
            BY <1>3, SignAppends
        <3>3. QED
            BY <1>3, <3>1, <3>2, SignAppends
    <2>3. \A i \in 1 .. Len(entries') : Signed(signings', entries'[i])
        <3> DEFINE sig == Signature(k, Signable(entries))
                   last == [key |-> k, members |-> entries]
        <3>1. /\ sig.key = k /\ sig.over = Signable(entries)
              /\ PublicKey(k).kind # "sig"
            BY DEF Signature, PublicKey
        <3>2. last \in signings' /\ last.key = k /\ last.members = entries
            BY <2>1
        <3> HIDE DEF sig, last
        <3>3. Made(signings', sig.key, sig.over)
            BY <3>1, <3>2 DEF Made
        <3>4. Signed(signings', entries'[Len(entries) + 1]) /\ Signed(signings', entries'[Len(entries) + 2])
            BY <2>2, <3>1, <3>3 DEF Signed, sig
        <3>5. \A i \in 1 .. Len(entries) : Signed(signings', entries'[i])
            BY <1>1, <2>1, <2>2 DEF Signed, Made
        <3>6. \A i \in 1 .. Len(entries') :
                 i \in 1 .. Len(entries) \/ i = Len(entries) + 1 \/ i = Len(entries) + 2
            BY <1>1, <2>2
        <3>7. QED
            BY <3>4, <3>5, <3>6
    <2>4. Recorded'
        BY <1>1, <2>1 DEF Recorded, FormatInv
    <2>5. QED
        BY <1>1, <2>1, <2>2, <2>3, <2>4, EntriesChanged
<1>4. ASSUME NEW i \in 1 .. Len(entries), NEW c \in Contents(entries[i].path), Corrupt(i, c)
      PROVE  FormatInv'
    <2>1. /\ built' \in BOOLEAN /\ built' /\ faults' \in 0 .. MaxFaults
          /\ entries' = [entries EXCEPT ![i].content = c]
          /\ UNCHANGED <<store, signings>> /\ fresh' \in BOOLEAN
        <3>1. faults < MaxFaults /\ faults' = faults + 1
            BY <1>4 DEF Corrupt
        <3>2. faults' \in 0 .. MaxFaults
            BY <1>1, <3>1
        <3>3. QED
            BY <1>1, <1>4, <3>2, Zenon DEF Corrupt
    <2>2. entries \in EntriesOver(H \cup {c})
        BY <1>0, Widened
    <2>3. /\ entries' \in EntriesOver(H \cup {c}) /\ Len(entries') = Len(entries)
          /\ entries'[i].content = c /\ entries'[i].path = entries[i].path
          /\ \A j \in 1 .. Len(entries) : j # i => entries'[j] = entries[j]
        <3>1. entries[i] \in Member(H)
            BY <1>0, ElementOfSeq DEF EntriesOver
        <3>2. [entries[i] EXCEPT !.content = c] \in Member(H \cup {c})
            BY <3>1 DEF Member
        <3>3. entries' = [entries EXCEPT ![i] = [entries[i] EXCEPT !.content = c]]
            BY <1>0, <2>1, LenProperties DEF EntriesOver
        <3>4. /\ [entries[i] EXCEPT !.content = c].content = c
              /\ [entries[i] EXCEPT !.content = c].path = entries[i].path
            BY <3>1 DEF Member
        <3>5. QED
            BY <2>2, <3>2, <3>3, <3>4, ExceptSeq DEF EntriesOver
    <2>4. c.kind # "sig"
        BY <1>1, ContentsUnsigned
    <2>5. \A j \in 1 .. Len(entries') : Signed(signings', entries'[j])
        <3>1. Signed(signings', entries'[i])
            BY <2>3, <2>4 DEF Signed
        <3>2. QED
            BY <1>1, <1>r, <2>1, <2>3, <3>1
    <2>6. \A j \in 1 .. Len(entries') : entries'[j].path \in Proper
        BY <1>1, <1>4, <2>3 DEF Corrupt
    <2>7. QED
        BY <1>1, <1>r, <2>1, <2>3, <2>5, <2>6, EntriesChanged
<1>5. ASSUME NEW i \in 1 .. Len(entries), Lose(i) PROVE FormatInv'
    <2> DEFINE a == SubSeq(entries, 1, i - 1)
               b == SubSeq(entries, i + 1, Len(entries))
    <2>1. /\ built' \in BOOLEAN /\ built' /\ faults' \in 0 .. MaxFaults
          /\ entries' = a \o b
          /\ UNCHANGED <<store, signings>> /\ fresh' \in BOOLEAN
        <3>1. faults < MaxFaults /\ faults' = faults + 1
            BY <1>5 DEF Lose
        <3>2. faults' \in 0 .. MaxFaults
            BY <1>1, <3>1
        <3>3. QED
            BY <1>1, <1>5, <3>2, Zenon DEF Lose
    <2>2. /\ a \in Seq(Member(H)) /\ Len(a) = i - 1
          /\ \A j \in 1 .. Len(a) : \E k \in 1 .. Len(entries) : a[j] = entries[k]
        <3>1. \A j \in 1 .. i - 1 : entries[j] \in Member(H)
            BY <1>0, <1>1, ElementOfSeq DEF EntriesOver
        <3>2. /\ a \in Seq(Member(H)) /\ Len(a) = i - 1
              /\ \A j \in 1 .. Len(a) : a[j] = entries[j] /\ j \in 1 .. Len(entries)
            BY <1>1, <3>1, SubSeqProperties
        <3> HIDE DEF a
        <3>3. QED
            BY <3>2
    <2>3. /\ b \in Seq(Member(H)) /\ Len(b) = Len(entries) - i
          /\ \A j \in 1 .. Len(b) : \E k \in 1 .. Len(entries) : b[j] = entries[k]
        <3>1. \A j \in i + 1 .. Len(entries) : entries[j] \in Member(H)
            BY <1>0, <1>1, ElementOfSeq DEF EntriesOver
        <3>2. /\ b \in Seq(Member(H)) /\ Len(b) = Len(entries) - i
              /\ \A j \in 1 .. Len(b) : b[j] = entries[i + j] /\ i + j \in 1 .. Len(entries)
            BY <1>1, <3>1, SubSeqProperties
        <3> HIDE DEF a, b
        <3>3. QED
            BY <3>2
    <2>4. /\ entries' \in Seq(Member(H)) /\ Len(entries') = Len(entries) - 1
          /\ \A j \in 1 .. Len(entries') :
                \E k \in 1 .. Len(entries) : entries'[j] = entries[k]
        <3> HIDE DEF a, b
        <3>1. /\ entries' \in Seq(Member(H)) /\ Len(entries') = Len(a) + Len(b)
              /\ \A j \in 1 .. Len(a) + Len(b) :
                    entries'[j] = IF j <= Len(a) THEN a[j] ELSE b[j - Len(a)]
            BY <2>1, <2>2, <2>3, ConcatProperties
        <3>2. Len(a) \in Nat /\ Len(b) \in Nat
            BY <2>2, <2>3, LenProperties
        <3>3. ASSUME NEW j \in 1 .. Len(entries')
              PROVE  \E k \in 1 .. Len(entries) : entries'[j] = entries[k]
            <4>1. CASE j <= Len(a)
                <5>1. j \in 1 .. Len(a) /\ entries'[j] = a[j]
                    BY <3>1, <3>2, <4>1
                <5>2. QED
                    BY <2>2, <5>1
            <4>2. CASE ~(j <= Len(a))
                <5>1. j - Len(a) \in 1 .. Len(b) /\ entries'[j] = b[j - Len(a)]
                    BY <3>1, <3>2, <4>2
                <5>2. QED
                    BY <2>3, <5>1
            <4>3. QED
                BY <4>1, <4>2
        <3>4. QED
            BY <1>1, <2>2, <2>3, <3>1, <3>3
    <2>5. ASSUME NEW j \in 1 .. Len(entries')
          PROVE  Signed(signings', entries'[j]) /\ entries'[j].path \in Proper
        <3> HIDE DEF a, b
        <3>1. PICK k \in 1 .. Len(entries) : entries'[j] = entries[k]
            BY <2>4
        <3>2. QED
            BY <1>1, <1>5, <1>r, <2>1, <3>1 DEF Lose
    <2> HIDE DEF a, b
    <2>6. Len(entries') <= MaxEntries /\ (faults' > 0 => built')
        BY <1>1, <2>1, <2>4
    <2>7. store' \in KnownKeys
        BY <1>1, <2>1
    <2>8. QED
        BY <1>r, <2>1, <2>4, <2>5, <2>6, <2>7, EntriesChanged DEF EntriesOver
<1>6. CASE UNCHANGED vars
    <2>1. \A i \in 1 .. Len(entries') : Signed(signings', entries'[i])
        BY <1>1, <1>6, <1>r DEF vars
    <2>2. QED
        BY <1>0, <1>1, <1>6, <1>r, <2>1, EntriesChanged DEF vars
<1>7. ASSUME NEW k \in Keys, NEW l \in Levels, Trust(k, l) PROVE FormatInv'
    <2>1. store' \in KnownKeys
        BY <1>1, <1>7 DEF Trust, KnownKeys
    <2>2. \A i \in 1 .. Len(entries') : Signed(signings', entries'[i])
        BY <1>1, <1>7, <1>r DEF Trust
    <2>3. QED
        BY <1>0, <1>1, <1>7, <1>r, <2>1, <2>2, EntriesChanged DEF Trust
<1>8. CASE Build
    <2>1. /\ built' = TRUE /\ UNCHANGED <<faults, store, signings>> /\ fresh' \in BOOLEAN
          /\ entries' = [i \in 1 .. Len(entries) |-> Entry(TarPath(entries[i].path), entries[i].content)]
        BY <1>8, Zenon DEF Build
    <2>2. \A i \in 1 .. Len(entries) : TarPath(entries[i].path) \in Proper /\ entries[i].content \in H
        <3>1. \A i \in 1 .. Len(entries) : entries[i] \in Member(H)
            BY <1>0, ElementOfSeq DEF EntriesOver
        <3>2. QED
            BY <3>1, FormatAssumption DEF Member, Paths
    <2>3. \A i \in 1 .. Len(entries) :
             /\ Entry(TarPath(entries[i].path), entries[i].content) \in Member(H)
             /\ Entry(TarPath(entries[i].path), entries[i].content).path \in Proper
             /\ Entry(TarPath(entries[i].path), entries[i].content).content = entries[i].content
        BY <2>2 DEF Entry, Member, Paths
    <2>4. entries' \in Seq(Member(H)) /\ Len(entries') = Len(entries)
        BY <1>1, <2>1, <2>3, IsASeq
    <2>5. ASSUME NEW i \in 1 .. Len(entries')
          PROVE  Signed(signings', entries'[i]) /\ entries'[i].path \in Proper
        <3>1. i \in 1 .. Len(entries) /\ entries'[i].path \in Proper /\ entries'[i].content = entries[i].content
            BY <2>1, <2>3, <2>4
        <3>2. Signed(signings', entries[i])
            BY <1>1, <1>r, <2>1, <3>1
        <3>3. QED
            BY <3>1, <3>2 DEF Signed
    <2>6. QED
        BY <1>1, <1>r, <2>1, <2>4, <2>5, EntriesChanged DEF EntriesOver
<1>9. ASSUME NEW i \in 1 .. Len(entries) - 1, Swap(i) PROVE FormatInv'
    <2>1. /\ built' \in BOOLEAN /\ built' /\ built /\ faults' \in 0 .. MaxFaults
          /\ UNCHANGED <<store, signings>> /\ fresh' \in BOOLEAN
        <3>1. faults < MaxFaults /\ faults' = faults + 1
            BY <1>9 DEF Swap
        <3>2. faults' \in 0 .. MaxFaults
            BY <1>1, <3>1
        <3>3. QED
            BY <1>1, <1>9, <3>2, Zenon DEF Swap
    <2>2. /\ entries' \in EntriesOver(H) /\ Len(entries') = Len(entries)
          /\ \A j \in 1 .. Len(entries) : \E k \in 1 .. Len(entries) : entries'[j] = entries[k]
        <3>1. entries \in Seq(Member(H)) /\ i \in 1 .. Len(entries) /\ i + 1 \in 1 .. Len(entries)
            BY <1>0, <1>1 DEF EntriesOver
        <3>2. QED
            BY <1>9, <3>1, SwapTrades DEF Swap, EntriesOver
    <2>3. ASSUME NEW j \in 1 .. Len(entries')
          PROVE  Signed(signings', entries'[j]) /\ entries'[j].path \in Proper
        <3>1. PICK k \in 1 .. Len(entries) : entries'[j] = entries[k]
            BY <2>2
        <3>2. QED
            BY <1>1, <1>r, <2>1, <3>1
    <2>4. QED
        BY <1>1, <1>r, <2>1, <2>2, <2>3, EntriesChanged
<1>10. QED
    BY <1>2, <1>3, <1>4, <1>5, <1>6, <1>7, <1>8, <1>9 DEF Next

(* Every variable keeps its type, whatever is added, signed, changed or lost. *)
THEOREM TypeCorrect == Spec => []TypeOK
<1>1. FormatInv => TypeOK
    BY DEF FormatInv
<1>2. QED
    BY <1>1, FormatInit, FormatStep, PTL DEF Spec

(* For archives of any length, any members and keys, and any sort: a level    *)
(* other than Unknown is that of a key whose holder signed these very bytes. *)
THEOREM TrustEarned == Spec => []TrustIsEarned
<1>1. ASSUME FormatInv PROVE TrustIsEarned
    <2> SUFFICES ASSUME Classify(entries) # "Unknown"
                 PROVE  \E s \in signings : /\ store[s.key] = Classify(entries)
                                            /\ Signable(s.members) = Signable(entries)
        BY DEF TrustIsEarned
    <2> DEFINE sig == ReadEntry(entries, SignaturePath)
               pub == ReadEntry(entries, PublicKeyPath)
    <2>1. SignatureStatus(entries) = "Verified" /\ Classify(entries) = LevelFor(pub.key)
        BY DEF Classify, RequireValidSignature
    <2>2. /\ Has(entries, SignaturePath) /\ sig.kind = "sig"
          /\ sig.key = pub.key /\ sig.over = Signable(entries)
        BY <2>1 DEF SignatureStatus, Verify
    <2>3. PICK i \in 1 .. Len(entries) : sig = entries[i].content
        BY <1>1, <2>2, ReadEntryFinds DEF FormatInv, Archive
    <2>4. Made(signings, sig.key, sig.over)
        BY <1>1, <2>2, <2>3 DEF FormatInv, Signed
    <2>5. Classify(entries) = store[sig.key]
        BY <2>1, <2>2 DEF LevelFor
    <2> HIDE DEF sig, pub
    <2>6. QED
        BY <2>2, <2>4, <2>5 DEF Made
<1>2. QED
    BY <1>1, FormatInit, FormatStep, PTL DEF Spec

-----------------------------------------------------------------------------
(* What a signature covers.                                                 *)

(* The last of some numbers below n.                                        *)
LEMMA HasGreatest ==
    ASSUME NEW n \in Nat, NEW S, S \subseteq 1 .. n, S # {}
    PROVE  \E x \in S : \A y \in S : y <= x
<1>1. \A x \in S : x \in Int /\ n - x \in Nat
    OBVIOUS
<1> DEFINE Above == {n - x : x \in S}
<1>2. Above \subseteq Nat /\ Above # {}
    BY <1>1
<1>3. PICK a \in Above : \A b \in Above : a <= b
    <2> HIDE DEF Above
    <2> QED BY <1>2, HasLeast
<1>4. PICK x \in S : a = n - x
    OBVIOUS
<1>5. \A y \in S : n - x <= n - y
    BY <1>3, <1>4
<1>6. ASSUME NEW y \in S PROVE y <= x
    <2>1. n - x <= n - y /\ x \in Int /\ y \in Int
        BY <1>1, <1>5
    <2>2. QED
        BY <2>1
<1>7. QED
    BY <1>6

(* open keeps the manifest that stands last.                                 *)
LEMMA ManifestFinds ==
    ASSUME NEW S, NEW es \in EntriesOver(S), Has(es, ManifestPath)
    PROVE  \E m \in 1 .. Len(es) :
              /\ es[m].path = ManifestPath /\ ManifestOf(es) = es[m].content
              /\ \A j \in 1 .. Len(es) : es[j].path = ManifestPath => j <= m
<1> DEFINE At == {i \in 1 .. Len(es) : es[i].path = ManifestPath}
<1>1. Len(es) \in Nat /\ At \subseteq 1 .. Len(es) /\ At # {}
    BY LenProperties DEF EntriesOver, Has
<1>2. PICK m \in At : \A j \in At : j <= m
    <2> HIDE DEF At
    <2> QED BY <1>1, HasGreatest
<1>3. \E k \in 1 .. Len(es) :
          /\ es[k].path = ManifestPath
          /\ \A j \in 1 .. Len(es) : es[j].path = ManifestPath => j <= k
    BY <1>2
<1>4. QED
    BY <1>3 DEF ManifestOf

(* What the sort goes by: the positions of the paths it keeps go up.          *)
LEMMA SlotsAscend ==
    ASSUME NEW es, Archive(es), NEW i \in CoveredAt(es), NEW k \in CoveredAt(es)
    PROVE  /\ Slot(es, i) \in [pos : 1 .. MaxEntries, path : Covered]
           /\ i < k => Slot(es, i).pos < Slot(es, k).pos
<1> DEFINE Upto(l) == {j \in 1 .. l : es[j].path \in Covered}
<1>1. /\ Len(es) \in Nat /\ Len(es) <= MaxEntries /\ MaxEntries \in Nat
      /\ i \in 1 .. Len(es) /\ k \in 1 .. Len(es)
    BY LenProperties, FormatAssumption DEF Archive, EntriesOver, CoveredAt
<1>2. ASSUME NEW l \in CoveredAt(es)
      PROVE  /\ l \in Upto(l) /\ IsFiniteSet(Upto(l)) /\ Cardinality(Upto(l)) \in 1 .. l
             /\ Slot(es, l).pos = Cardinality(Upto(l)) /\ Slot(es, l).path \in Covered
    <2>1. l \in 1 .. Len(es) /\ l \in Upto(l) /\ Upto(l) \subseteq 1 .. l
        BY <1>1 DEF CoveredAt
    <2>2. IsFiniteSet(1 .. l) /\ Cardinality(1 .. l) = l
        BY <1>1, <2>1, FS_Interval
    <2>3. /\ Slot(es, l).pos = Cardinality(Upto(l)) /\ Slot(es, l).path \in Covered
        BY DEF Slot, CoveredAt
    <2> HIDE DEF Upto
    <2>4. IsFiniteSet(Upto(l)) /\ Cardinality(Upto(l)) <= l
        BY <2>1, <2>2, FS_Subset
    <2>5. Cardinality(Upto(l)) \in Nat /\ Cardinality(Upto(l)) # 0
        BY <2>1, <2>4, FS_CardinalityType, FS_EmptySet
    <2>6. QED
        BY <1>1, <2>1, <2>3, <2>4, <2>5
<1>3. Slot(es, i) \in [pos : 1 .. MaxEntries, path : Covered]
    <2> HIDE DEF Upto
    <2>1. Cardinality(Upto(i)) \in 1 .. i /\ Slot(es, i).pos = Cardinality(Upto(i))
        BY <1>2
    <2>2. Slot(es, i).pos \in 1 .. MaxEntries
        BY <1>1, <2>1
    <2>3. Slot(es, i).path \in Covered
        BY <1>2
    <2>4. QED
        BY <2>2, <2>3 DEF Slot
<1>4. ASSUME i < k PROVE Slot(es, i).pos < Slot(es, k).pos
    <2>1. Upto(i) \subseteq Upto(k) /\ k \notin Upto(i)
        BY <1>1, <1>4
    <2> HIDE DEF Upto
    <2>2. /\ Cardinality(Upto(i)) <= Cardinality(Upto(k))
          /\ Cardinality(Upto(i)) = Cardinality(Upto(k)) => Upto(i) = Upto(k)
        BY <1>2, <2>1, FS_Subset
    <2>3. Cardinality(Upto(i)) # Cardinality(Upto(k))
        BY <1>2, <2>1, <2>2
    <2>4. Cardinality(Upto(i)) \in Int /\ Cardinality(Upto(k)) \in Int
        BY <1>1, <1>2
    <2>5. QED
        BY <1>2, <2>2, <2>3, <2>4
<1>5. QED
    BY <1>3, <1>4

(* Two items of one path and place are the same one.                          *)
LEMMA PlacesTell ==
    ASSUME NEW es, Archive(es), NEW fs, Archive(fs), Slots(es) = Slots(fs),
           NEW i \in CoveredAt(es), NEW k \in CoveredAt(fs), Item(es, i) = Item(fs, k)
    PROVE  Slot(es, i) = Slot(fs, k) /\ es[i].content = fs[k].content
<1>1. /\ Slot(es, i) \in Slots(es) /\ Slot(fs, k) \in Slots(es)
      /\ Slots(es) \in SUBSET [pos : 1 .. MaxEntries, path : Covered]
    BY SlotsAscend DEF Slots
<1>2. /\ es[i].path = fs[k].path /\ es[i].content = fs[k].content
      /\ Place(Slots(es), Slot(es, i)) = Place(Slots(es), Slot(fs, k))
    BY DEF Item
<1>3. Slot(es, i).path = Slot(fs, k).path
    BY <1>2 DEF Slot
<1>4. QED
    BY <1>1, <1>2, <1>3, SortAssumption

(* Every manifest among the items signed is one in the other archive as well. *)
LEMMA ManifestElsewhere ==
    ASSUME NEW es, NEW fs, Signable(es) = Signable(fs),
           NEW i \in 1 .. Len(es), es[i].path = ManifestPath
    PROVE  /\ i \in CoveredAt(es)
           /\ \E k \in CoveredAt(fs) : Item(es, i) = Item(fs, k) /\ fs[k].path = ManifestPath
                                      /\ fs[k].content = es[i].content
<1>1. i \in CoveredAt(es)
    BY DEF CoveredAt, Covered
<1>2. PICK k \in CoveredAt(fs) : Item(es, i) = Item(fs, k)
    BY <1>1 DEF Signable
<1>3. QED
    BY <1>1, <1>2 DEF Item

(* Archives with the same bytes to sign open alike, if one has no second     *)
(* manifest or their paths stand alike.                                     *)
LEMMA SameManifest ==
    ASSUME NEW es, Archive(es), NEW fs, Archive(fs), Signable(es) = Signable(fs),
           OneManifest(es) \/ Slots(es) = Slots(fs)
    PROVE  OpensAs(fs, es)
<1>1. Has(es, ManifestPath) <=> Has(fs, ManifestPath)
    BY ManifestElsewhere DEF Has, CoveredAt
<1>2. ASSUME Has(es, ManifestPath) PROVE ManifestOf(es) = ManifestOf(fs)
    <2>1. PICK m \in 1 .. Len(es) :
              /\ es[m].path = ManifestPath /\ ManifestOf(es) = es[m].content
              /\ \A j \in 1 .. Len(es) : es[j].path = ManifestPath => j <= m
        BY <1>2, ManifestFinds DEF Archive
    <2>2. PICK l \in 1 .. Len(fs) :
              /\ fs[l].path = ManifestPath /\ ManifestOf(fs) = fs[l].content
              /\ \A j \in 1 .. Len(fs) : fs[j].path = ManifestPath => j <= l
        BY <1>1, <1>2, ManifestFinds DEF Archive
    <2>3. PICK i \in CoveredAt(es) : /\ Item(fs, l) = Item(es, i) /\ es[i].path = ManifestPath
                                     /\ es[i].content = fs[l].content
        BY <2>2, ManifestElsewhere
    <2>4. i \in 1 .. Len(es)
        BY <2>3 DEF CoveredAt
    <2>5. CASE OneManifest(es)
        <3>1. i = m
            BY <2>1, <2>3, <2>4, <2>5 DEF OneManifest
        <3>2. QED
            BY <2>1, <2>2, <2>3, <3>1
    <2>6. CASE Slots(es) = Slots(fs)
        <3>1. PICK k \in CoveredAt(fs) : /\ Item(es, m) = Item(fs, k) /\ fs[k].path = ManifestPath
                                         /\ fs[k].content = es[m].content
            BY <2>1, ManifestElsewhere
        <3>2. m \in CoveredAt(es) /\ l \in CoveredAt(fs) /\ k \in 1 .. Len(fs)
            BY <2>1, <2>2, <3>1, ManifestElsewhere DEF CoveredAt
        <3>3. Slot(es, m) = Slot(fs, k) /\ Slot(fs, l) = Slot(es, i)
            BY <2>3, <2>6, <3>1, <3>2, PlacesTell
        <3>4. i <= m /\ k <= l
            BY <2>1, <2>2, <2>3, <2>4, <3>1, <3>2
        <3>5. /\ i < m => Slot(es, i).pos < Slot(es, m).pos
              /\ k < l => Slot(fs, k).pos < Slot(fs, l).pos
              /\ Slot(es, i).pos \in Int /\ Slot(es, m).pos \in Int
            <4>1. /\ Slot(es, i) \in [pos : 1 .. MaxEntries, path : Covered]
                  /\ Slot(es, m) \in [pos : 1 .. MaxEntries, path : Covered]
                BY <2>3, <3>2, SlotsAscend
            <4>2. QED
                BY <2>3, <3>1, <3>2, <4>1, SlotsAscend
        <3>6. m \in Int /\ i \in Int
            BY <2>4
        <3>7. i = m
            BY <3>3, <3>4, <3>5, <3>6, <2>2, <3>2
        <3>8. QED
            BY <2>1, <2>2, <2>3, <3>7
    <2>7. QED
        BY <2>5, <2>6
<1>3. QED
    BY <1>1, <1>2 DEF OpensAs, Opens, ValidateLayout

(* What stands first at its path is what is read there.                      *)
LEMMA ReadFirst ==
    ASSUME NEW S, NEW es \in EntriesOver(S), NEW k \in 1 .. Len(es),
           \A j \in 1 .. Len(es) : es[j].path = es[k].path => k <= j
    PROVE  Has(es, es[k].path) /\ ReadEntry(es, es[k].path) = es[k].content
<1> DEFINE First(i) == /\ es[i].path = es[k].path
                       /\ \A j \in 1 .. Len(es) : es[j].path = es[k].path => i <= j
<1>1. First(k)
    OBVIOUS
<1>2. Len(es) \in Nat
    BY LenProperties DEF EntriesOver
<1>3. \A i \in 1 .. Len(es) : First(i) => i = k
    BY <1>2
<1>4. (CHOOSE i \in 1 .. Len(es) : First(i)) = k
    BY <1>1, <1>3
<1>5. QED
    BY <1>4 DEF Has, ReadEntry

(* The members covered are none of those that carry the signature.           *)
LEMMA CoveredApart ==
    /\ SignaturePath \notin Covered /\ PublicKeyPath \notin Covered
    /\ SignaturePath # PublicKeyPath
<1>1. /\ SignaturePath # ManifestPath /\ PublicKeyPath # ManifestPath
      /\ SignaturePath # PublicKeyPath
    BY DEF ManifestPath, SignaturePath, PublicKeyPath
<1>2. QED
    BY <1>1, FormatAssumption DEF Covered, Proper, SignatureMembers

(* What is signed once, and last, verifies: the two new members are the      *)
(* first at their paths, and nothing that is covered has changed.            *)
LEMMA SignVerifies ==
    ASSUME FormatInv, NEW k \in Keys, Sign(k),
           \A i \in 1 .. Len(entries) : entries[i].path \notin SignatureMembers
    PROVE  SignatureStatus(entries') = "Verified"
<1> DEFINE n == Len(entries)
           sig == Signature(k, Signable(entries))
<1>1. /\ n \in Nat /\ Len(entries') = n + 2
      /\ entries'[n + 1] = Entry(SignaturePath, sig) /\ entries'[n + 2] = Entry(PublicKeyPath, PublicKey(k))
      /\ \A i \in 1 .. n : entries'[i] = entries[i]
    BY SignAppends
<1>2. PICK S : entries' \in EntriesOver(S)
    BY SignAppends
<1> HIDE DEF n, sig
<1>3. /\ entries'[n + 1].path = SignaturePath /\ entries'[n + 1].content = sig
      /\ entries'[n + 2].path = PublicKeyPath /\ entries'[n + 2].content = PublicKey(k)
    BY <1>1 DEF Entry
<1>4. \A i \in 1 .. n : entries'[i].path # SignaturePath /\ entries'[i].path # PublicKeyPath
    BY <1>1 DEF SignatureMembers, n
<1>5. n + 1 \in 1 .. Len(entries') /\ n + 2 \in 1 .. Len(entries')
      /\ \A i \in 1 .. Len(entries') : i \in 1 .. n \/ i = n + 1 \/ i = n + 2
    BY <1>1
<1>6. Signable(entries') = Signable(entries)
    <2>1. {j \in 1 .. Len(entries') : entries'[j].path \in Covered}
            = {j \in 1 .. Len(entries) : entries[j].path \in Covered}
        BY <1>1, <1>3, <1>5, CoveredApart DEF n
    <2>2. CoveredAt(entries') = CoveredAt(entries)
        BY <2>1 DEF CoveredAt
    <2>3. ASSUME NEW i \in CoveredAt(entries)
          PROVE  entries'[i] = entries[i] /\ Slot(entries', i) = Slot(entries, i)
        <3>1. i \in 1 .. n /\ \A j \in 1 .. i : j \in 1 .. n
            BY <1>1 DEF CoveredAt, n
        <3>2. {j \in 1 .. i : entries'[j].path \in Covered} = {j \in 1 .. i : entries[j].path \in Covered}
            BY <1>1, <3>1 DEF n
        <3>3. QED
            BY <1>1, <3>1, <3>2 DEF Slot, n
    <2>4. Slots(entries') = Slots(entries)
        BY <2>2, <2>3 DEF Slots
    <2>5. \A i \in CoveredAt(entries) : Item(entries', i) = Item(entries, i)
        BY <2>3, <2>4 DEF Item
    <2>6. QED
        BY <2>2, <2>5 DEF Signable
<1>7. Has(entries', SignaturePath) /\ ReadEntry(entries', SignaturePath) = sig
    <2>1. \A j \in 1 .. Len(entries') : entries'[j].path = SignaturePath => n + 1 <= j
        BY <1>1, <1>3, <1>4, <1>5
    <2>2. QED
        BY <1>2, <1>3, <1>5, <2>1, ReadFirst
<1>8. Has(entries', PublicKeyPath) /\ ReadEntry(entries', PublicKeyPath) = PublicKey(k)
    <2>1. \A j \in 1 .. Len(entries') : entries'[j].path = PublicKeyPath => n + 2 <= j
        BY <1>1, <1>3, <1>4, <1>5, CoveredApart
    <2>2. QED
        BY <1>2, <1>3, <1>5, <2>1, ReadFirst
<1>9. /\ sig.kind = "sig" /\ sig.key = k /\ sig.over = Signable(entries)
      /\ PublicKey(k).kind = "key" /\ PublicKey(k).key = k
    BY DEF sig, Signature, PublicKey
<1>10. QED
    BY <1>6, <1>7, <1>8, <1>9 DEF SignatureStatus, Verify

(* Archives that have each path once, and the same members, look alike to a   *)
(* signature: the sort has nothing to choose.                               *)
LEMMA RearrangedAlike ==
    ASSUME NEW es, Archive(es), NEW fs, Archive(fs), NoneTwice(es), NoneTwice(fs),
           \A i \in 1 .. Len(es) : \E k \in 1 .. Len(fs) : es[i] = fs[k],
           \A k \in 1 .. Len(fs) : \E i \in 1 .. Len(es) : es[i] = fs[k]
    PROVE  SignatureStatus(es) = SignatureStatus(fs)
<1>1. ASSUME NEW as, Archive(as), NoneTwice(as), NEW i \in CoveredAt(as)
      PROVE  Item(as, i) = [path |-> as[i].path, place |-> 1, content |-> as[i].content]
    <2>1. /\ Slot(as, i) \in Slots(as)
          /\ Slots(as) \in SUBSET [pos : 1 .. MaxEntries, path : Covered]
        <3>1. \A j \in CoveredAt(as) : Slot(as, j) \in [pos : 1 .. MaxEntries, path : Covered]
            BY <1>1, SlotsAscend
        <3>2. QED
            BY <1>1, <3>1 DEF Slots
    <2>2. {z \in Slots(as) : z.path = Slot(as, i).path} = {Slot(as, i)}
        <3>1. ASSUME NEW k \in CoveredAt(as), Slot(as, k).path = Slot(as, i).path
              PROVE  k = i
            BY <1>1, <3>1 DEF Slot, CoveredAt, NoneTwice
        <3>2. QED
            BY <2>1, <3>1 DEF Slots
    <2>3. Place(Slots(as), Slot(as, i)) \in 1 .. 1
        <3>1. Cardinality({Slot(as, i)}) = 1
            BY FS_Singleton
        <3>2. Place(Slots(as), Slot(as, i)) \in 1 .. Cardinality({z \in Slots(as) : z.path = Slot(as, i).path})
            BY <2>1, SortAssumption
        <3>3. QED
            BY <2>2, <3>1, <3>2
    <2>4. QED
        BY <2>3 DEF Item
<1>2. ASSUME NEW as, NEW bs, Archive(as), Archive(bs), NoneTwice(as), NoneTwice(bs),
             \A i \in 1 .. Len(as) : \E k \in 1 .. Len(bs) : as[i] = bs[k]
      PROVE  Signable(as) \subseteq Signable(bs)
    <2>1. ASSUME NEW i \in CoveredAt(as) PROVE Item(as, i) \in Signable(bs)
        <3>1. PICK k \in 1 .. Len(bs) : as[i] = bs[k]
            BY <1>2 DEF CoveredAt
        <3>2. k \in CoveredAt(bs)
            BY <3>1 DEF CoveredAt
        <3>3. Item(as, i) = [path |-> as[i].path, place |-> 1, content |-> as[i].content]
            BY <1>1, <1>2
        <3>4. Item(bs, k) = [path |-> bs[k].path, place |-> 1, content |-> bs[k].content]
            BY <1>1, <1>2, <3>2
        <3>5. QED
            BY <3>1, <3>2, <3>3, <3>4 DEF Signable
    <2>2. QED
        BY <2>1 DEF Signable
<1>3. Signable(es) = Signable(fs)
    <2>1. Signable(es) \subseteq Signable(fs)
        BY <1>2
    <2>2. Signable(fs) \subseteq Signable(es)
        <3>1. \A k \in 1 .. Len(fs) : \E i \in 1 .. Len(es) : fs[k] = es[i]
            OBVIOUS
        <3>2. QED
            BY <1>2, <3>1
    <2>3. QED
        BY <2>1, <2>2
<1>4. ASSUME NEW path
      PROVE  /\ Has(es, path) <=> Has(fs, path)
             /\ Has(es, path) => ReadEntry(es, path) = ReadEntry(fs, path)
    <2>1. Has(es, path) <=> Has(fs, path)
        BY DEF Has
    <2>2. ASSUME Has(es, path) PROVE ReadEntry(es, path) = ReadEntry(fs, path)
        <3>1. PICK i \in 1 .. Len(es) : es[i].path = path /\ ReadEntry(es, path) = es[i].content
            BY <2>2, ReadEntryFinds DEF Archive
        <3>2. PICK k \in 1 .. Len(fs) : fs[k].path = path /\ ReadEntry(fs, path) = fs[k].content
            BY <2>1, <2>2, ReadEntryFinds DEF Archive
        <3>3. PICK l \in 1 .. Len(fs) : es[i] = fs[l]
            OBVIOUS
        <3>4. l = k
            BY <3>1, <3>2, <3>3 DEF NoneTwice
        <3>5. QED
            BY <3>1, <3>2, <3>3, <3>4
    <2>3. QED
        BY <2>1, <2>2
<1>5. QED
    BY <1>3, <1>4 DEF SignatureStatus, Verify

(* What was signed once, with each path once, verifies rearranged as well.      *)
LEMMA SwapVerifies ==
    ASSUME FormatInv, FormatInv', NEW i \in 1 .. Len(entries) - 1, Swap(i), NoneTwice(entries)
    PROVE  SignatureStatus(entries') = SignatureStatus(entries)
<1>1. /\ Archive(entries) /\ Archive(entries') /\ entries \in Seq(Member(Held(entries)))
      /\ Len(entries) \in Nat
    BY LenProperties DEF FormatInv, Archive, EntriesOver
<1>2. i \in 1 .. Len(entries) /\ i + 1 \in 1 .. Len(entries) /\ i # i + 1
    BY <1>1
<1>3. /\ Len(entries') = Len(entries)
      /\ entries'[i] = entries[i + 1] /\ entries'[i + 1] = entries[i]
      /\ \A j \in 1 .. Len(entries) : j # i /\ j # i + 1 => entries'[j] = entries[j]
    BY <1>1, <1>2, SwapTrades DEF Swap
<1> DEFINE From(j) == IF j = i THEN i + 1 ELSE IF j = i + 1 THEN i ELSE j
<1>4. \A j \in 1 .. Len(entries) :
         From(j) \in 1 .. Len(entries) /\ From(From(j)) = j /\ entries'[j] = entries[From(j)]
    BY <1>2, <1>3
<1> HIDE DEF From
<1>5. NoneTwice(entries')
    <2>1. ASSUME NEW j \in 1 .. Len(entries'), NEW k \in 1 .. Len(entries'),
                 entries'[j].path = entries'[k].path
          PROVE  j = k
        <3>1. From(j) = From(k)
            BY <1>3, <1>4, <2>1 DEF NoneTwice
        <3>2. QED
            BY <1>3, <1>4, <3>1
    <2>2. QED
        BY <2>1 DEF NoneTwice
<1>6. /\ \A j \in 1 .. Len(entries') : \E k \in 1 .. Len(entries) : entries'[j] = entries[k]
      /\ \A k \in 1 .. Len(entries) : \E j \in 1 .. Len(entries') : entries'[j] = entries[k]
    BY <1>3, <1>4
<1>7. QED
    BY <1>1, <1>5, <1>6, RearrangedAlike

LEMMA FreshStep == FormatInv /\ FormatInv' /\ SignedLastVerifies /\ [Next]_vars => SignedLastVerifies'
<1> SUFFICES ASSUME FormatInv, FormatInv', SignedLastVerifies, [Next]_vars, fresh'
             PROVE  SignatureStatus(entries') = "Verified"
    BY DEF SignedLastVerifies
<1>1. CASE UNCHANGED entries /\ (fresh' => fresh)
    BY <1>1 DEF SignedLastVerifies
<1>2. ASSUME NEW k \in Keys, Sign(k) PROVE SignatureStatus(entries') = "Verified"
    <2>1. \A i \in 1 .. Len(entries) : entries[i].path \notin SignatureMembers
        BY <1>2, Zenon DEF Sign
    <2>2. QED
        BY <1>2, <2>1, SignVerifies
<1>3. ASSUME NEW i \in 1 .. Len(entries) - 1, Swap(i) PROVE SignatureStatus(entries') = "Verified"
    <2>1. fresh /\ NoneTwice(entries)
        BY <1>3, Zenon DEF Swap
    <2>2. QED
        BY <1>3, <2>1, SwapVerifies DEF SignedLastVerifies
<1>4. CASE Build
    <2>1. fresh /\ entries' = entries
        BY <1>4, Zenon DEF Build
    <2>2. QED
        BY <1>1, <2>1
<1>5. QED
    BY <1>1, <1>2, <1>3, <1>4 DEF Next, AddFile, Corrupt, Lose, Trust, vars

(* What verifies was signed by somebody, and opens to what was signed.       *)
LEMMA VerifiedOpens == FormatInv => OpensAsSigned
<1> SUFFICES ASSUME FormatInv, SignatureStatus(entries) = "Verified"
             PROVE  \E s \in signings :
                        /\ Signable(s.members) = Signable(entries)
                        /\ OneManifest(s.members) \/ Slots(s.members) = Slots(entries)
                           => OpensAs(entries, s.members)
    BY DEF OpensAsSigned
<1> DEFINE sig == ReadEntry(entries, SignaturePath)
<1>1. Has(entries, SignaturePath) /\ sig.kind = "sig" /\ sig.over = Signable(entries)
    BY DEF SignatureStatus, Verify
<1>2. PICK i \in 1 .. Len(entries) : sig = entries[i].content
    BY <1>1, ReadEntryFinds DEF FormatInv, Archive
<1>3. Made(signings, sig.key, sig.over)
    BY <1>1, <1>2 DEF FormatInv, Signed
<1>4. PICK s \in signings : Signable(s.members) = Signable(entries)
    BY <1>1, <1>3 DEF Made
<1>5. Archive(s.members) /\ Archive(entries)
    BY DEF FormatInv, Recorded
<1>6. QED
    BY <1>4, <1>5, SameManifest

(* For archives of any length, and any sort: what is signed once, and last,  *)
(* verifies, and what verifies opens to the manifest that was signed.       *)
THEOREM SignaturesCover == Spec => []SignatureCovers
<1> DEFINE SignedInv == FormatInv /\ SignedLastVerifies
<1>1. Init => SignedInv
    BY FormatInit DEF Init, SignedLastVerifies
<1>2. SignedInv /\ [Next]_vars => SignedInv'
    BY FormatStep, FreshStep
<1>3. SignedInv => SignatureCovers
    BY VerifiedOpens DEF SignatureCovers
<1>4. QED
    BY <1>1, <1>2, <1>3, PTL DEF Spec
=============================================================================
