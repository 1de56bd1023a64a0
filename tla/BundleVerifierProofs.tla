------------------------- MODULE BundleVerifierProofs -------------------------
(***************************************************************************)
(* Proofs about what the bundle verifier accepts, for any libraries,       *)
(* revisions, versions, notes and layouts.                                 *)
(***************************************************************************)
EXTENDS BundleVerifier, TLAPS, WellFoundedInduction

-----------------------------------------------------------------------------
(* Powers of two and remainders.                                           *)

\* Induction over the natural numbers, for a set instead of a predicate: a
\* smallest counterexample would have a predecessor that is none.
LEMMA Induction ==
    ASSUME NEW S \in SUBSET Nat, 0 \in S, \A n \in S : n + 1 \in S
    PROVE  \A n \in Nat : n \in S
<1>. SUFFICES ASSUME Nat \ S # {} PROVE FALSE
  OBVIOUS
<1>. DEFINE R == OpToRel(<, Nat)
<1>1. IsWellFoundedOn(R, Nat)
  BY NatLessThanWellFounded
<1>2. \A x, y \in Nat : <<y, x>> \in R <=> y < x
  BY DEF OpToRel
<1>. HIDE DEF R
<1>3. PICK x \in Nat \ S : \A y \in Nat \ S : ~ (<<y, x>> \in R)
  <2>1. Nat \ S \subseteq Nat
    OBVIOUS
  <2>. QED  BY <1>1, <2>1, WFMin
<1>4. x # 0 /\ x - 1 \in Nat /\ x - 1 < x
  BY <1>3
<1>5. x - 1 \in S
  BY <1>2, <1>3, <1>4
<1>6. x - 1 + 1 = x
  BY <1>3
<1>. QED  BY <1>3, <1>5, <1>6

\* f lists 1, 2, 4, .. up to the n-th power.
Doubles(f, n) ==
    /\ f \in [0 .. n -> Nat]
    /\ f[0] = 1
    /\ \A i \in 1 .. n : f[i] = 2 * f[i - 1]

LEMMA DoublesExist == ASSUME NEW n \in Nat PROVE \E f : Doubles(f, n)
<1>. DEFINE S == {m \in Nat : \E f : Doubles(f, m)}
<1>1. 0 \in S
  <2>1. Doubles([i \in 0 .. 0 |-> 1], 0)
    BY DEF Doubles
  <2>. QED  BY <2>1
<1>2. ASSUME NEW m \in S PROVE m + 1 \in S
  <2>1. PICK f : Doubles(f, m)
    OBVIOUS
  <2>. DEFINE g == [i \in 0 .. m + 1 |-> IF i = m + 1 THEN 2 * f[m] ELSE f[i]]
  <2>2. f[m] \in Nat /\ f[0] = 1
    BY <2>1 DEF Doubles
  <2>3. g \in [0 .. m + 1 -> Nat] /\ g[0] = 1
    BY <2>1, <2>2 DEF Doubles
  <2>4. ASSUME NEW i \in 1 .. m + 1 PROVE g[i] = 2 * g[i - 1]
    <3>1. CASE i = m + 1
      <4>1. g[i] = 2 * f[m] /\ i - 1 = m /\ g[m] = f[m]
        BY <3>1
      <4>. QED  BY <4>1
    <3>2. CASE i # m + 1
      <4>1. i \in 1 .. m /\ i - 1 \in 0 .. m
        BY <3>2
      <4>2. g[i] = f[i] /\ g[i - 1] = f[i - 1]
        BY <4>1
      <4>. QED  BY <2>1, <4>1, <4>2 DEF Doubles
    <3>. QED  BY <3>1, <3>2
  <2>5. Doubles(g, m + 1)
    BY <2>3, <2>4 DEF Doubles
  <2>. QED  BY <2>5
<1>. HIDE DEF S
<1>3. S \in SUBSET Nat
  BY DEF S
<1>4. n \in S
  BY <1>1, <1>2, <1>3, Induction
<1>. QED  BY <1>4 DEF S

\* A power of two is in every list that is long enough.
LEMMA PowerIsListed ==
    ASSUME NEW n \in Nat, PowerOfTwo(n), NEW N \in Nat, n <= N, NEW f, Doubles(f, N)
    PROVE  \E k \in 0 .. N : n = f[k]
<1>. DEFINE power == CHOOSE g : g = [k \in 0 .. n |-> IF k = 0 THEN 1 ELSE 2 * g[k - 1]]
            h == [k \in 0 .. n |-> f[k]]
<1>1. h = [k \in 0 .. n |-> IF k = 0 THEN 1 ELSE 2 * h[k - 1]]
  <2>1. ASSUME NEW k \in 0 .. n
        PROVE  h[k] = IF k = 0 THEN 1 ELSE 2 * h[k - 1]
    <3>1. CASE k = 0
      BY <3>1 DEF Doubles
    <3>2. CASE k # 0
      <4>1. k \in 1 .. N /\ k - 1 \in 0 .. n
        BY <3>2
      <4>2. f[k] = 2 * f[k - 1] /\ h[k] = f[k] /\ h[k - 1] = f[k - 1]
        BY <4>1 DEF Doubles
      <4>. QED  BY <3>2, <4>2
    <3>. QED  BY <3>1, <3>2
  <2>. QED  BY <2>1
<1>2. power = [k \in 0 .. n |-> IF k = 0 THEN 1 ELSE 2 * power[k - 1]]
  BY <1>1
<1>3. \E k \in 0 .. n : n = power[k]
  BY DEF PowerOfTwo
<1>. HIDE DEF power
<1>. DEFINE S == {k \in Nat : k <= n => power[k] = f[k]}
<1>4. 0 \in S
  <2>1. 0 \in 0 .. n
    OBVIOUS
  <2>2. power[0] = 1 /\ f[0] = 1
    BY <1>2, <2>1 DEF Doubles
  <2>. QED  BY <2>2
<1>5. ASSUME NEW k \in S PROVE k + 1 \in S
  <2>1. CASE k + 1 <= n
    <3>1. k + 1 \in 0 .. n /\ k + 1 # 0 /\ k + 1 - 1 = k /\ power[k] = f[k]
          /\ k + 1 \in 1 .. N
      BY <2>1
    <3>2. power[k + 1] = 2 * power[k + 1 - 1]
      BY <1>2, <3>1
    <3>3. f[k + 1] = 2 * f[k + 1 - 1]
      BY <3>1 DEF Doubles
    <3>. QED  BY <3>1, <3>2, <3>3
  <2>. QED  BY <2>1
<1>6. \A k \in Nat : k \in S
  <2>. HIDE DEF S
  <2>1. S \in SUBSET Nat
    BY DEF S
  <2>. QED  BY <1>4, <1>5, <2>1, Induction
<1>7. PICK k \in 0 .. n : n = power[k]
  BY <1>3
<1>8. k \in Nat /\ k <= n /\ k \in 0 .. N
  BY <1>7
<1>9. power[k] = f[k]
  BY <1>6, <1>8
<1>. QED  BY <1>7, <1>8, <1>9

\* Later powers are larger multiples of the earlier ones.
LEMMA LaterIsMultiple ==
    ASSUME NEW N \in Nat, NEW f, Doubles(f, N), NEW i \in 0 .. N
    PROVE  \A j \in i .. N : /\ f[j] >= f[i]
                             /\ j # i => f[j] > f[i]
                             /\ \E q \in Nat : f[j] = f[i] * q
<1>1. \A j \in 0 .. N : f[j] \in Nat
  BY DEF Doubles
<1>. DEFINE P == {j \in Nat : j <= N => f[j] > 0}
            S == {d \in Nat : i + d <= N =>
                    /\ f[i + d] >= f[i]
                    /\ d # 0 => f[i + d] > f[i]
                    /\ \E q \in Nat : f[i + d] = f[i] * q}
<1>2. \A j \in Nat : j \in P
  <2>1. 0 \in P
    BY DEF Doubles
  <2>2. ASSUME NEW j \in P PROVE j + 1 \in P
    <3>1. CASE j + 1 <= N
      <4>1. j + 1 \in 1 .. N /\ j + 1 - 1 = j /\ f[j] > 0 /\ f[j] \in Nat
        BY <1>1, <3>1
      <4>2. f[j + 1] = 2 * f[j + 1 - 1]
        BY <4>1 DEF Doubles
      <4>. QED  BY <4>1, <4>2
    <3>. QED  BY <3>1
  <2>. HIDE DEF P
  <2>3. P \in SUBSET Nat
    BY DEF P
  <2>. QED  BY <2>1, <2>2, <2>3, Induction
<1>3. 0 \in S
  <2>1. i + 0 = i /\ f[i] \in Nat /\ f[i] = f[i] * 1
    BY <1>1
  <2>. QED  BY <2>1
<1>4. ASSUME NEW d \in S PROVE d + 1 \in S
  <2>. SUFFICES ASSUME i + (d + 1) <= N
                PROVE  /\ f[i + (d + 1)] >= f[i]
                       /\ d + 1 # 0 => f[i + (d + 1)] > f[i]
                       /\ \E q \in Nat : f[i + (d + 1)] = f[i] * q
    OBVIOUS
  <2>1. PICK k \in 0 .. N : k = i + d
    OBVIOUS
  <2>2. k + 1 \in 1 .. N /\ k + 1 - 1 = k /\ i + (d + 1) = k + 1 /\ i + d <= N
    BY <2>1
  <2>3. PICK q \in Nat : f[k] = f[i] * q
    BY <2>1, <2>2
  <2>4. f[k] >= f[i] /\ f[k] \in Nat /\ f[i] \in Nat
    BY <1>1, <2>1, <2>2
  <2>5. f[k] > 0
    BY <1>2, <2>1, <2>2
  <2>6. f[k + 1] = 2 * f[k + 1 - 1]
    BY <2>2 DEF Doubles
  <2>7. PICK a \in Nat, b \in Nat, c \in Nat : a = f[i] /\ b = f[k] /\ c = f[k + 1]
    BY <1>1, <2>2, <2>4
  <2>8. c = 2 * b /\ b >= a /\ b > 0 /\ b = a * q
    BY <2>2, <2>3, <2>4, <2>5, <2>6, <2>7
  <2>9. c >= a /\ c > a
    BY <2>7, <2>8
  <2>10. c = a * (2 * q) /\ 2 * q \in Nat
    BY <2>3, <2>7, <2>8
  <2>. QED  BY <2>2, <2>7, <2>9, <2>10
<1>5. \A d \in Nat : d \in S
  <2>. HIDE DEF S
  <2>1. S \in SUBSET Nat
    BY DEF S
  <2>. QED  BY <1>3, <1>4, <2>1, Induction
<1>6. ASSUME NEW j \in i .. N PROVE j - i \in Nat /\ i + (j - i) = j /\ (j # i => j - i # 0)
  OBVIOUS
<1>. QED  BY <1>5, <1>6

\* Of two powers of two, the larger one is a multiple of the other.
LEMMA PowerDivides ==
    ASSUME NEW page \in Nat, PowerOfTwo(page), NEW n \in Nat, PowerOfTwo(n), page <= n
    PROVE  page > 0 /\ \E q \in Nat : n = page * q
<1>1. PICK f : Doubles(f, n)
  BY DoublesExist
<1>2. PICK i \in 0 .. n : page = f[i]
  BY <1>1, PowerIsListed
<1>3. PICK k \in 0 .. n : n = f[k]
  BY <1>1, PowerIsListed
<1>4. i <= k
  <2>. SUFFICES ASSUME k < i PROVE FALSE
    OBVIOUS
  <2>1. i \in k .. n /\ i # k
    OBVIOUS
  <2>2. f[i] > f[k]
    BY <1>1, <2>1, LaterIsMultiple
  <2>. QED  BY <1>2, <1>3, <2>2
<1>5. k \in i .. n
  BY <1>4
<1>6. \E q \in Nat : f[k] = f[i] * q
  BY <1>1, <1>5, LaterIsMultiple
<1>7. page > 0
  <2>1. 0 \in 0 .. n /\ i \in 0 .. n
    OBVIOUS
  <2>2. f[i] >= f[0] /\ f[0] = 1
    BY <1>1, <2>1, LaterIsMultiple DEF Doubles
  <2>. QED  BY <1>2, <2>2
<1>. QED  BY <1>2, <1>3, <1>6, <1>7

LEMMA Division ==
    ASSUME NEW x \in Nat, NEW n \in Nat \ {0}
    PROVE  x = n * (x \div n) + (x % n) /\ x % n \in 0 .. n - 1 /\ x \div n \in Nat
OBVIOUS

LEMMA RemainderOf ==
    ASSUME NEW n \in Nat \ {0}, NEW q \in Nat, NEW r \in 0 .. n - 1
    PROVE  (n * q + r) % n = r
OBVIOUS

LEMMA Products ==
    ASSUME NEW a \in Nat, NEW b \in Nat, NEW c \in Nat
    PROVE  a * (b + c) = a * b + a * c /\ a * (b * c) = (a * b) * c
           /\ a * b \in Nat
OBVIOUS

LEMMA Remainder ==
    ASSUME NEW page \in Nat \ {0}, NEW q \in Nat, NEW x \in Nat
    PROVE  (page * q + x) % page = x % page
<1>1. PICK d \in Nat, r \in 0 .. page - 1 : x = page * d + r /\ r = x % page
  BY Division
<1>2. PICK s \in Nat : s = q + d
  OBVIOUS
<1>3. page * s = page * q + page * d /\ page * q \in Nat /\ page * d \in Nat
  BY <1>2, Products
<1>4. page * q + x = page * s + r
  BY <1>1, <1>3
<1>5. (page * s + r) % page = r
  BY RemainderOf
<1>. QED  BY <1>1, <1>4, <1>5

\* What agrees modulo an alignment agrees modulo every page that divides it, also
\* when it is moved by whole pages.
LEMMA CongruentBelow ==
    ASSUME NEW offset \in Nat, NEW address \in Nat, NEW base \in Nat,
           NEW page \in Nat \ {0}, NEW m \in Nat, NEW n \in Nat,
           page * m # 0, Congruent(offset, address, page * m), base = page * n
    PROVE  Congruent(base + offset, address, page)
<1>1. PICK alignment \in Nat \ {0} : alignment = page * m
  BY Products
<1>2. offset % alignment = address % alignment
  BY <1>1 DEF Congruent
<1>3. PICK d \in Nat, r \in 0 .. alignment - 1 :
        offset = alignment * d + r /\ r = offset % alignment
  BY Division
<1>4. PICK e \in Nat : address = alignment * e + r
  <2>1. address = alignment * (address \div alignment) + (address % alignment)
        /\ address \div alignment \in Nat
    BY Division
  <2>2. address = alignment * (address \div alignment) + r
    BY <1>2, <1>3, <2>1
  <2>. QED  BY <2>1, <2>2
<1>5. PICK md \in Nat, me \in Nat : md = m * d /\ me = m * e
  BY Products
<1>6. alignment * d = page * md /\ alignment * e = page * me
  BY <1>1, <1>5, Products
<1>7. PICK all \in Nat : all = n + md
  OBVIOUS
<1>8. page * all = page * n + page * md
  BY <1>7, Products
<1>9. page * n \in Nat /\ page * md \in Nat /\ page * me \in Nat /\ r \in Nat
  BY Products
<1>10. base + offset = page * all + r
  <2>1. PICK a \in Nat, b \in Nat : a = page * n /\ b = page * md
    BY <1>9
  <2>2. base = a /\ offset = b + r /\ page * all = a + b
    BY <1>3, <1>6, <1>8, <2>1
  <2>. QED  BY <1>9, <2>1, <2>2
<1>11. address = page * me + r
  BY <1>4, <1>6
<1>12. (page * all + r) % page = r % page /\ (page * me + r) % page = r % page
  BY <1>9, Remainder
<1>. QED  BY <1>10, <1>11, <1>12 DEF Congruent

-----------------------------------------------------------------------------
(* The inductive invariant.                                                *)

StageIsBuilt ==
    build.at = "staged" =>
        \A name \in DOMAIN build.libraries : name \notin build.vendored =>
            build.libraries[name].built =
                BuiltOf(name, build.commit, build.bridge, build.pinnedTools)

\* What a manifest says of the libraries it lists is true, but for those that a
\* vendor directory held.
Honest(manifest) ==
    \A name \in DOMAIN manifest.libraries : name \notin manifest.vendored =>
        manifest.libraries[name].built =
            BuiltOf(name, manifest.commit, manifest.contract.bridge, TRUE)

RecordsAreHonest ==
    /\ build.at = "recorded" => Honest(build.stage.manifest)
    /\ bundle # None => Honest(bundle.manifest)

BundleInv ==
    /\ StageIsBuilt
    /\ RecordsAreHonest
    /\ AcceptedIsCurrent
    /\ SymbolsResolve
    /\ ReleaseIsComplete

USE BundleAssumption

-----------------------------------------------------------------------------
(* What the verifier's checks mean.                                        *)

\* Two binaries of one identity were built from the same sources, though one of
\* them was stripped.
LEMMA SameBinaryIsSameBuild ==
    ASSUME NEW library, NEW source, SameBinary(library, source)
    PROVE  library.built = source.built
<1>1. /\ binary_identity(library) = binary_identity(source)
      /\ binary_identity(library)[1] # "truncated"
  BY DEF SameBinary, Identified
<1>. QED
  BY <1>1 DEF binary_identity

\* A bundle with its provenance is what was staged, and that was built from the
\* contract of today unless a vendor directory held it.
LEMMA ProvenanceIsCurrent ==
    ASSUME RecordsAreHonest, bundle # None, verify_provenance(bundle)
    PROVE  /\ bundle.manifest.libraries = bundle.libraries
           /\ \A name \in DOMAIN bundle.libraries : name \notin bundle.manifest.vendored =>
                bundle.libraries[name].built =
                    BuiltOf(name, contract.commit, contract.bridge, TRUE)
BY DEF RecordsAreHonest, Honest, verify_provenance

\* What is accepted is forgotten by every step that verifies nothing.
LEMMA NothingAccepted ==
    ASSUME accepted' = Nothing
    PROVE  (AcceptedIsCurrent /\ SymbolsResolve /\ ReleaseIsComplete)'
BY DEF Nothing, AcceptedIsCurrent, SymbolsResolve, ReleaseIsComplete

-----------------------------------------------------------------------------
(* One lemma for each action that the invariant is about.                  *)

LEMMA BuildStep ==
    ASSUME BundleInv, NEW names, NEW notes, NEW image, NEW found,
           Build(names, notes, image, found)
    PROVE  BundleInv'
<1>1. /\ build'.at = "staged"
      /\ build'.commit = build.commit /\ build'.bridge = build.bridge
      /\ build'.pinnedTools = build.pinnedTools
      /\ build'.vendored = DOMAIN found
      /\ build'.libraries = [name \in names \union DOMAIN found |->
            IF name \in DOMAIN found THEN found[name]
            ELSE Library(BuiltOf(name, build.commit, build.bridge, build.pinnedTools),
                         notes, image)]
  BY DEF Build
<1>2. StageIsBuilt'
  BY <1>1 DEF StageIsBuilt, Library, BuiltOf
<1>3. RecordsAreHonest'
  BY <1>1 DEF Build, BundleInv, RecordsAreHonest, Honest, BuiltOf
<1>. QED
  BY <1>2, <1>3, NothingAccepted DEF Build, BundleInv

LEMMA WriteStep == ASSUME BundleInv, write_provenance PROVE BundleInv'
<1>1. /\ build'.at = "recorded"
      /\ build'.stage.manifest = Manifest
  BY DEF write_provenance
<1>2. Honest(Manifest)
  BY DEF write_provenance, SourcesMatch, Manifest, Honest, BundleInv, StageIsBuilt
<1>3. Honest(build'.stage.manifest)
  BY <1>1, <1>2
<1>4. RecordsAreHonest'
  BY <1>3 DEF write_provenance, BundleInv, RecordsAreHonest, Honest, BuiltOf
<1>5. StageIsBuilt'
  BY <1>1 DEF StageIsBuilt
<1>. QED
  BY <1>4, <1>5, NothingAccepted DEF write_provenance, BundleInv

LEMMA InstallStep == ASSUME BundleInv, Install PROVE BundleInv'
<1>1. build' = Idle /\ (bundle' = build.stage \/ bundle' = None) /\ build.at = "recorded"
  BY DEF Install
<1>2. StageIsBuilt' /\ RecordsAreHonest'
  BY <1>1 DEF Idle, StageIsBuilt, BundleInv, RecordsAreHonest, Honest, BuiltOf
<1>. QED
  BY <1>2, NothingAccepted DEF Install, BundleInv

\* Steps that leave the manifests as they are.
LEMMA OtherStep ==
    ASSUME BundleInv, accepted' = Nothing,
           build' = build \/ build'.at \notin {"staged", "recorded"},
           bundle' = bundle \/ (bundle # None /\ bundle'.manifest = bundle.manifest)
    PROVE  BundleInv'
<1>1. StageIsBuilt'
  BY DEF BundleInv, StageIsBuilt, BuiltOf
<1>2. RecordsAreHonest'
  BY DEF BundleInv, RecordsAreHonest, Honest, BuiltOf
<1>. QED
  BY <1>1, <1>2, NothingAccepted DEF BundleInv

LEMMA VerifyBundleStep ==
    ASSUME BundleInv, NEW required \in BOOLEAN, VerifyBundle(required)
    PROVE  BundleInv'
<1>. DEFINE entries == {Entry(name, bundle.libraries[name]) : name \in DOMAIN bundle.libraries}
<1>1. /\ accepted'.entries = entries /\ accepted'.provenance = required
      /\ UNCHANGED <<contract, build, bundle>>
      /\ bundle # None
  BY DEF VerifyBundle
<1>2. \A entry \in entries : /\ entry.name \in DOMAIN bundle.libraries
                             /\ entry.library = bundle.libraries[entry.name]
                             /\ Path(entry) = <<"base", entry.name>>
                             /\ entry = Entry(entry.name, bundle.libraries[entry.name])
  BY DEF Entry, Path
<1>3. required =>
        /\ bundle.manifest.libraries = bundle.libraries
        /\ \A name \in DOMAIN bundle.libraries : name \notin bundle.manifest.vendored =>
             bundle.libraries[name].built =
                 BuiltOf(name, contract.commit, contract.bridge, TRUE)
  BY <1>1, ProvenanceIsCurrent DEF VerifyBundle, BundleInv
<1>4. StageIsBuilt' /\ RecordsAreHonest'
  BY <1>1 DEF BundleInv, StageIsBuilt, RecordsAreHonest, Honest, BuiltOf
<1>. HIDE DEF entries
<1>5. AcceptedIsCurrent'
  BY <1>1, <1>2, <1>3 DEF AcceptedIsCurrent
<1>6. SymbolsResolve'
  BY <1>1, <1>2 DEF SymbolsResolve, VerifyBundle, verify_directory, verify_symbols,
                    required_symbols, Exports
<1>7. ReleaseIsComplete'
  <2>. SUFFICES ASSUME required, NEW name \in Release
                PROVE  LET Copies == {entry \in entries : Path(entry) = <<"base", name>>}
                           staged == bundle.manifest.libraries[name].built
                       IN  /\ \E entry \in Copies : Copies = {entry}
                           /\ \A entry \in Copies : entry.library.built = staged
                           /\ name \notin bundle.manifest.vendored =>
                                staged = BuiltOf(name, contract.commit, contract.bridge,
                                                 TRUE)
    BY <1>1 DEF ReleaseIsComplete, BuiltOf
  <2>1. name \in DOMAIN bundle.libraries
    BY DEF VerifyBundle, verify_provenance
  <2>2. Entry(name, bundle.libraries[name]) \in entries
    BY <2>1 DEF entries
  <2>3. \A entry \in entries : Path(entry) = <<"base", name>> => entry.name = name
    BY <1>2
  <2>4. Path(Entry(name, bundle.libraries[name])) = <<"base", name>>
    BY DEF Path, Entry
  <2>5. {entry \in entries : Path(entry) = <<"base", name>>}
        = {Entry(name, bundle.libraries[name])}
    BY <1>2, <2>2, <2>3, <2>4
  <2>. QED
    BY <1>2, <1>3, <2>1, <2>3, <2>5
<1>. QED
  BY <1>4, <1>5, <1>6, <1>7 DEF BundleInv

LEMMA VerifyPackageStep ==
    ASSUME BundleInv, NEW entries, NEW apk, NEW required \in BOOLEAN,
           VerifyPackage(entries, apk, required)
    PROVE  BundleInv'
<1>1. /\ accepted'.entries = {entries[i] : i \in DOMAIN entries}
      /\ accepted'.provenance = required
      /\ UNCHANGED <<contract, build, bundle>>
      /\ bundle # None /\ MAIN_LIBRARY \in DOMAIN bundle.libraries
  BY DEF VerifyPackage, Range, bundle_libraries
<1>2. /\ \A i, j \in DOMAIN entries : Path(entries[i]) = Path(entries[j]) => i = j
      /\ \A name \in DOMAIN bundle.libraries :
            \E i \in DOMAIN entries : Path(entries[i]) = <<"base", name>>
      /\ \A i \in DOMAIN entries : EntryAccepted(entries[i], bundle.libraries, apk)
  BY DEF VerifyPackage, verify_archive
<1>3. \A i \in DOMAIN entries : entries[i].name \in DOMAIN bundle.libraries =>
         entries[i].library.built = bundle.libraries[entries[i].name].built
  BY <1>2, SameBinaryIsSameBuild DEF EntryAccepted
<1>4. required =>
        /\ bundle.manifest.libraries = bundle.libraries
        /\ \A name \in DOMAIN bundle.libraries : name \notin bundle.manifest.vendored =>
             bundle.libraries[name].built =
                 BuiltOf(name, contract.commit, contract.bridge, TRUE)
  BY <1>1, ProvenanceIsCurrent DEF VerifyPackage, BundleInv
<1>5. StageIsBuilt' /\ RecordsAreHonest'
  BY <1>1 DEF BundleInv, StageIsBuilt, RecordsAreHonest, Honest, BuiltOf
<1>6. AcceptedIsCurrent'
  <2>. SUFFICES ASSUME required, NEW i \in DOMAIN entries,
                       entries[i].name = MAIN_LIBRARY,
                       MAIN_LIBRARY \notin bundle.manifest.vendored
                PROVE  entries[i].library.built =
                          BuiltOf(MAIN_LIBRARY, contract.commit, contract.bridge, TRUE)
    BY <1>1 DEF AcceptedIsCurrent, BuiltOf
  <2>. QED
    BY <1>1, <1>3, <1>4
<1>7. SymbolsResolve'
  BY <1>1, <1>2 DEF SymbolsResolve, EntryAccepted, verify_symbols, required_symbols, Exports
<1>8. ReleaseIsComplete'
  <2>. DEFINE all == {entries[i] : i \in DOMAIN entries}
  <2>. SUFFICES ASSUME required, NEW name \in Release
                PROVE  LET Copies == {entry \in all : Path(entry) = <<"base", name>>}
                           staged == bundle.manifest.libraries[name].built
                       IN  /\ \E entry \in Copies : Copies = {entry}
                           /\ \A entry \in Copies : entry.library.built = staged
                           /\ name \notin bundle.manifest.vendored =>
                                staged = BuiltOf(name, contract.commit, contract.bridge,
                                                 TRUE)
    BY <1>1 DEF ReleaseIsComplete, BuiltOf
  <2>1. name \in DOMAIN bundle.libraries
    BY DEF VerifyPackage, verify_provenance
  <2>2. PICK i \in DOMAIN entries : Path(entries[i]) = <<"base", name>>
    BY <1>2, <2>1
  <2>3. {entry \in all : Path(entry) = <<"base", name>>} = {entries[i]}
    BY <1>2, <2>2
  <2>4. entries[i].name = name
    BY <2>2 DEF Path
  <2>5. entries[i].library.built = bundle.manifest.libraries[name].built
    BY <1>3, <1>4, <2>1, <2>4
  <2>. QED
    BY <1>4, <2>1, <2>3, <2>5
<1>. QED
  BY <1>5, <1>6, <1>7, <1>8 DEF BundleInv

LEMMA InitInv == Init => BundleInv
BY DEF Init, Idle, Nothing, BundleInv, StageIsBuilt, RecordsAreHonest, AcceptedIsCurrent,
       SymbolsResolve, ReleaseIsComplete

LEMMA NextInv == BundleInv /\ [Next]_vars => BundleInv'
<1>. SUFFICES ASSUME BundleInv, [Next]_vars PROVE BundleInv'
  OBVIOUS
<1>1. CASE UNCHANGED vars
  BY <1>1 DEF vars, BundleInv, StageIsBuilt, RecordsAreHonest, Honest, BuiltOf,
              AcceptedIsCurrent, SymbolsResolve, ReleaseIsComplete, Exports, Path
<1>2. CASE \/ \E files \in Contract : Edit(files)
           \/ \E commit \in Commit, pinnedTools, release \in BOOLEAN :
                Checkout(commit, pinnedTools, release)
           \/ BuildFails
           \/ \E library \in Old : Exchange(library)
  BY <1>2, OtherStep DEF Edit, Checkout, BuildFails, Exchange, Idle
<1>3. CASE \/ \E names \in SUBSET Release, notes \in Notes, image \in OwnImage,
                found \in Found : Build(names, notes, image, found)
           \/ write_provenance \/ Install
  BY <1>3, BuildStep, WriteStep, InstallStep
<1>4. CASE \E required \in BOOLEAN : VerifyBundle(required)
  BY <1>4, VerifyBundleStep
<1>5. CASE \E entries \in Packages, apk, required \in BOOLEAN :
             VerifyPackage(entries, apk, required)
  BY <1>5, VerifyPackageStep
<1>. QED
  BY <1>1, <1>2, <1>3, <1>4, <1>5 DEF Next

-----------------------------------------------------------------------------
(* Theorems.                                                               *)

THEOREM BundleInvariant == Spec => []BundleInv
BY InitInv, NextInv, PTL DEF Spec

\* What the verifier accepts with its provenance required was built from what is
\* pinned and in the repository now (write_provenance, verify_provenance,
\* binary_identity), for any number of edits, builds and exchanged files, unless a
\* vendor directory of the build held a main library (copy_npu_dispatch_libs).
THEOREM AcceptedLibrariesAreCurrent == Spec => []AcceptedIsCurrent
BY BundleInvariant, PTL DEF BundleInv

\* Every symbol that the bindings look up is in the main library of what is
\* accepted (required_symbols, verify_symbols), with or without provenance.
THEOREM AcceptedSymbolsResolve == Spec => []SymbolsResolve
BY BundleInvariant, PTL DEF BundleInv

\* An accepted release holds each of its libraries once, at its path, as the build
\* of its manifest staged it; from the pinned revision, unless a vendor directory
\* held a library of that name (verify_provenance, verify_archive,
\* copy_npu_dispatch_libs).
THEOREM AcceptedReleasesAreComplete == Spec => []ReleaseIsComplete
BY BundleInvariant, PTL DEF BundleInv

-----------------------------------------------------------------------------
(* The layout of what is accepted.                                         *)

IsLibrary(library) ==
    /\ library = [built |-> library.built, stripped |-> library.stripped,
                  notes |-> library.notes, image |-> library.image]
    /\ Unsigned(library.image)

UnsignedLibraries(libraries) ==
    \A name \in DOMAIN libraries : IsLibrary(libraries[name])

LayoutInv ==
    /\ build.at = "staged" => UnsignedLibraries(build.libraries)
    /\ build.at = "recorded" => UnsignedLibraries(build.stage.libraries)
    /\ bundle # None => UnsignedLibraries(bundle.libraries)
    /\ LoadableLayout

\* The layout of one library that begins at base in the file.
Loadable(image, base) ==
    \A segment \in Loads(image) :
        /\ segment.offset + segment.fileSize <= image.size
        /\ \A page \in 1 .. PAGE_SIZE : PowerOfTwo(page) =>
              Congruent(base + segment.offset, segment.address, page)

\* What verify_elf accepts is loadable from the beginning of any page.
LEMMA AcceptedLoads ==
    ASSUME NEW image, verify_elf(image), Unsigned(image),
           NEW base \in Nat, base % PAGE_SIZE = 0
    PROVE  Loadable(image, base)
<1>. SUFFICES ASSUME NEW segment \in Loads(image), NEW page \in 1 .. PAGE_SIZE,
                     PowerOfTwo(page)
              PROVE  Congruent(base + segment.offset, segment.address, page)
  BY DEF Loadable, verify_elf, SegmentFits
<1>1. PAGE_SIZE \in Nat \ {0} /\ PowerOfTwo(PAGE_SIZE)
  BY PageAssumption
<1>2. page \in Nat \ {0} /\ page <= PAGE_SIZE
  BY <1>1
<1>3. /\ segment.alignment >= PAGE_SIZE /\ PowerOfTwo(segment.alignment)
      /\ Congruent(segment.offset, segment.address, segment.alignment)
  BY DEF verify_elf
<1>4. PICK offset \in Nat, address \in Nat, alignment \in Nat :
        /\ offset = segment.offset /\ address = segment.address
        /\ alignment = segment.alignment
  BY DEF Unsigned
<1>5. alignment >= PAGE_SIZE /\ PowerOfTwo(alignment) /\ page <= alignment
      /\ Congruent(offset, address, alignment) /\ alignment # 0
  BY <1>1, <1>2, <1>3, <1>4
<1>6. PICK m \in Nat : alignment = page * m
  BY <1>2, <1>5, PowerDivides
<1>7. PICK k \in Nat : PAGE_SIZE = page * k
  BY <1>1, <1>2, PowerDivides
<1>8. PICK d \in Nat : base = PAGE_SIZE * d
  <2>1. base = PAGE_SIZE * (base \div PAGE_SIZE) + (base % PAGE_SIZE)
        /\ base \div PAGE_SIZE \in Nat
    BY <1>1, Division
  <2>2. PICK d \in Nat : d = base \div PAGE_SIZE
    BY <2>1
  <2>3. base = PAGE_SIZE * d + 0 /\ PAGE_SIZE * d \in Nat
    BY <1>1, <2>1, <2>2, Products
  <2>. QED  BY <2>3
<1>9. PICK n \in Nat : n = k * d
  BY Products
<1>10. base = page * n
  BY <1>2, <1>7, <1>8, <1>9, Products
<1>11. Congruent(base + offset, address, page)
  BY <1>2, <1>5, <1>6, <1>10, CongruentBelow
<1>. QED  BY <1>4, <1>11

LEMMA EntriesLoad ==
    ASSUME NEW entries, NEW apk,
           accepted'.entries = entries, accepted'.apk = apk,
           \A entry \in entries :
              /\ verify_elf(entry.library.image) /\ Unsigned(entry.library.image)
              /\ entry.stored /\ apk => entry.at \in Nat /\ entry.at % PAGE_SIZE = 0
    PROVE  LoadableLayout'
<1>1. ASSUME NEW entry \in entries
      PROVE  Loadable(entry.library.image,
                      IF entry.stored /\ apk THEN entry.at ELSE 0)
  <2>1. 0 \in Nat /\ 0 % PAGE_SIZE = 0
    BY PageAssumption
  <2>. QED  BY <1>1, <2>1, AcceptedLoads
<1>. QED  BY <1>1 DEF LoadableLayout, Loadable, Loads, Congruent, PowerOfTwo

LEMMA NothingLoads == ASSUME accepted' = Nothing PROVE LoadableLayout'
BY DEF Nothing, LoadableLayout

LEMMA OldIsLibrary == ASSUME NEW library \in Old PROVE IsLibrary(library)
BY BundleAssumption DEF Old, IsLibrary

LEMMA PluginUnsigned == ASSUME NEW library \in Plugin PROVE Unsigned(library.image)
<1>1. PICK image \in Image :
        library = Library(BuiltOf(Other, None, 0, FALSE), <<>>, image)
  BY DEF Plugin
<1>2. library.image = image
  BY <1>1 DEF Library
<1>. QED  BY <1>2, BundleAssumption

LEMMA ExtraUnsigned ==
    ASSUME NEW extra \in Extra
    PROVE  Unsigned(extra.library.image) /\ extra.at \in Nat
<1>1. \A library \in Old \union Plugin : Unsigned(library.image)
  BY OldIsLibrary, PluginUnsigned DEF IsLibrary
<1>2. extra.library \in Old \union Plugin /\ extra.at \in Offset \union {0}
  BY DEF Extra
<1>3. Offset \union {0} \subseteq Nat
  BY BundleAssumption
<1>4. Unsigned(extra.library.image)
  BY <1>1, <1>2
<1>5. extra.at \in Nat
  BY <1>2, <1>3
<1>. QED  BY <1>4, <1>5

\* Every library in a package that Gradle may have made has unsigned fields.
LEMMA PackagesUnsigned ==
    ASSUME UnsignedLibraries(bundle.libraries), NEW entries \in Packages,
           NEW i \in DOMAIN entries
    PROVE  Unsigned(entries[i].library.image) /\ entries[i].at \in Nat
<1>. DEFINE Good(entry) == Unsigned(entry.library.image) /\ entry.at \in Nat
            libraries == [name \in DOMAIN bundle.libraries |-> Strip(bundle.libraries[name])]
            stripped == [name \in DOMAIN libraries |-> Entry(name, libraries[name])]
            plain == [name \in DOMAIN bundle.libraries |->
                            Entry(name, bundle.libraries[name])]
<1>1. \A name \in DOMAIN bundle.libraries : Good(stripped[name]) /\ Good(plain[name])
  <2>. SUFFICES ASSUME NEW name \in DOMAIN bundle.libraries
                PROVE  Good(stripped[name]) /\ Good(plain[name])
    OBVIOUS
  <2>1. IsLibrary(bundle.libraries[name]) /\ Unsigned(bundle.libraries[name].image)
    BY DEF UnsignedLibraries, IsLibrary
  <2>2. stripped[name] = Entry(name, Strip(bundle.libraries[name]))
        /\ plain[name] = Entry(name, bundle.libraries[name])
    OBVIOUS
  <2>3. Entry(name, Strip(bundle.libraries[name])).library.image = bundle.libraries[name].image
        /\ Entry(name, Strip(bundle.libraries[name])).at = 0
    BY <2>1 DEF Entry, Strip, IsLibrary
  <2>4. Entry(name, bundle.libraries[name]).library = bundle.libraries[name]
        /\ Entry(name, bundle.libraries[name]).at = 0
    BY DEF Entry
  <2>. QED  BY <2>1, <2>2, <2>3, <2>4
<1>5. \A old \in Old : Good(Entry(MAIN_LIBRARY, old))
  BY OldIsLibrary DEF Entry, IsLibrary
<1>6. \A extra \in Extra : Good(extra)
  BY ExtraUnsigned
<1>7. \/ entries = plain \/ entries = stripped
      \/ \E gone \in DOMAIN stripped : entries = Restrict(stripped, DOMAIN stripped \ {gone})
      \/ \E old \in Old : entries = [stripped EXCEPT ![MAIN_LIBRARY] = Entry(MAIN_LIBRARY, old)]
      \/ \E extra \in Extra :
           entries = [n \in {None} \union DOMAIN stripped |->
                        IF n = None THEN extra ELSE stripped[n]]
  BY Zenon DEF Packages
<1>8. DOMAIN stripped = DOMAIN bundle.libraries /\ DOMAIN plain = DOMAIN bundle.libraries
  OBVIOUS
<1>. HIDE DEF Good, stripped, plain
<1>9. Good(entries[i])
  <2>1. CASE entries = plain \/ entries = stripped
    BY <1>1, <1>8, <2>1
  <2>2. CASE \E gone \in DOMAIN stripped :
               entries = Restrict(stripped, DOMAIN stripped \ {gone})
    BY <1>1, <1>8, <2>2 DEF Restrict
  <2>3. CASE \E old \in Old :
               entries = [stripped EXCEPT ![MAIN_LIBRARY] = Entry(MAIN_LIBRARY, old)]
    BY <1>1, <1>5, <1>8, <2>3
  <2>4. CASE \E extra \in Extra :
               entries = [n \in {None} \union DOMAIN stripped |->
                            IF n = None THEN extra ELSE stripped[n]]
    BY <1>1, <1>6, <1>8, <2>4
  <2>. QED  BY <1>7, <2>1, <2>2, <2>3, <2>4
<1>. QED  BY <1>9 DEF Good

\* Steps that verify nothing: the libraries of a build go to its stage and on to
\* the bundle.
LEMMA LibrariesStep ==
    ASSUME LayoutInv, accepted' = Nothing,
           build'.at = "staged" => UnsignedLibraries(build'.libraries),
           build'.at = "recorded" => UnsignedLibraries(build'.stage.libraries),
           bundle' # None => UnsignedLibraries(bundle'.libraries)
    PROVE  LayoutInv'
BY NothingLoads DEF LayoutInv, UnsignedLibraries, IsLibrary, Unsigned, Loads

LEMMA BuildLayout ==
    ASSUME LayoutInv, NEW names, NEW notes, NEW image \in OwnImage,
           NEW found \in Found, Build(names, notes, image, found)
    PROVE  LayoutInv'
<1>1. /\ build'.at = "staged" /\ accepted' = Nothing /\ bundle' = bundle
      /\ build'.libraries = [name \in names \union DOMAIN found |->
            IF name \in DOMAIN found THEN found[name]
            ELSE Library(BuiltOf(name, build.commit, build.bridge, build.pinnedTools),
                         notes, image)]
  BY DEF Build
<1>2. ASSUME NEW name \in DOMAIN found PROVE IsLibrary(found[name])
  BY BundleAssumption, FoundAssumption DEF IsLibrary
<1>3. ASSUME NEW built PROVE IsLibrary(Library(built, notes, image))
  BY BundleAssumption DEF IsLibrary, Library
<1>4. UnsignedLibraries(build'.libraries)
  BY <1>1, <1>2, <1>3 DEF UnsignedLibraries
<1>. QED  BY <1>1, <1>4, LibrariesStep DEF LayoutInv

LEMMA WriteLayout == ASSUME LayoutInv, write_provenance PROVE LayoutInv'
<1>1. /\ build.at = "staged" /\ build'.at = "recorded" /\ accepted' = Nothing
      /\ bundle' = bundle /\ build'.stage.libraries = build.libraries
  BY DEF write_provenance
<1>2. UnsignedLibraries(build'.stage.libraries)
  BY <1>1 DEF LayoutInv
<1>. QED  BY <1>1, <1>2, LibrariesStep DEF LayoutInv

LEMMA InstallLayout == ASSUME LayoutInv, Install PROVE LayoutInv'
<1>1. /\ build.at = "recorded" /\ (bundle' = build.stage \/ bundle' = None)
      /\ build'.at = "idle" /\ accepted' = Nothing
  BY DEF Install, Idle
<1>2. bundle' # None => UnsignedLibraries(bundle'.libraries)
  BY <1>1 DEF LayoutInv
<1>. QED  BY <1>1, <1>2, LibrariesStep

LEMMA ExchangeLayout ==
    ASSUME LayoutInv, NEW library \in Old, Exchange(library)
    PROVE  LayoutInv'
<1>1. /\ bundle # None /\ accepted' = Nothing /\ build' = build
      /\ bundle'.libraries = [name \in DOMAIN bundle.libraries |->
            IF name = MAIN_LIBRARY THEN library ELSE bundle.libraries[name]]
  BY DEF Exchange
<1>2. IsLibrary(library)
  BY OldIsLibrary
<1>3. UnsignedLibraries(bundle'.libraries)
  BY <1>1, <1>2 DEF LayoutInv, UnsignedLibraries
<1>. QED  BY <1>1, <1>3, LibrariesStep DEF LayoutInv

\* The verifier leaves the libraries as they are.
LEMMA VerifierStep ==
    ASSUME LayoutInv, UNCHANGED <<build, bundle>>, LoadableLayout'
    PROVE  LayoutInv'
BY DEF LayoutInv, UnsignedLibraries, IsLibrary, Unsigned, Loads

LEMMA VerifyBundleLayout ==
    ASSUME LayoutInv, NEW required, VerifyBundle(required)
    PROVE  LayoutInv'
<1>. DEFINE entries == {Entry(name, bundle.libraries[name]) : name \in DOMAIN bundle.libraries}
<1>1. /\ accepted'.entries = entries /\ accepted'.apk = FALSE /\ bundle # None
      /\ verify_directory(bundle) /\ UNCHANGED <<build, bundle>>
  BY DEF VerifyBundle
<1>2. ASSUME NEW entry \in entries
      PROVE  /\ verify_elf(entry.library.image) /\ Unsigned(entry.library.image)
             /\ entry.stored = FALSE
  <2>1. PICK name \in DOMAIN bundle.libraries : entry = Entry(name, bundle.libraries[name])
    OBVIOUS
  <2>. QED  BY <1>1, <2>1 DEF Entry, verify_directory, LayoutInv, UnsignedLibraries, IsLibrary
<1>. HIDE DEF entries
<1>3. LoadableLayout'
  BY <1>1, <1>2, EntriesLoad
<1>. QED  BY <1>1, <1>3, VerifierStep

LEMMA VerifyPackageLayout ==
    ASSUME LayoutInv, NEW entries \in Packages, NEW apk \in BOOLEAN, NEW required,
           VerifyPackage(entries, apk, required)
    PROVE  LayoutInv'
<1>. DEFINE all == {entries[i] : i \in DOMAIN entries}
<1>1. /\ accepted'.entries = all /\ accepted'.apk = apk /\ bundle # None
      /\ UNCHANGED <<build, bundle>>
      /\ \A i \in DOMAIN entries : EntryAccepted(entries[i], bundle.libraries, apk)
  BY DEF VerifyPackage, verify_archive, Range
<1>2. ASSUME NEW entry \in all
      PROVE  /\ verify_elf(entry.library.image) /\ Unsigned(entry.library.image)
             /\ entry.stored /\ apk => entry.at \in Nat /\ entry.at % PAGE_SIZE = 0
  <2>1. PICK i \in DOMAIN entries : entry = entries[i]
    OBVIOUS
  <2>2. Unsigned(entry.library.image) /\ entry.at \in Nat
    BY <1>1, <2>1, PackagesUnsigned DEF LayoutInv
  <2>. QED  BY <1>1, <2>1, <2>2 DEF EntryAccepted, DataAligned
<1>. HIDE DEF all
<1>3. LoadableLayout'
  BY <1>1, <1>2, EntriesLoad
<1>. QED  BY <1>1, <1>3, VerifierStep

LEMMA InitLayout == Init => LayoutInv
BY DEF Init, Idle, Nothing, LayoutInv, LoadableLayout

LEMMA NextLayout == LayoutInv /\ [Next]_vars => LayoutInv'
<1>. SUFFICES ASSUME LayoutInv, [Next]_vars PROVE LayoutInv'
  OBVIOUS
<1>1. CASE UNCHANGED vars
  <2>1. LoadableLayout'
    BY <1>1 DEF vars, LayoutInv, LoadableLayout, Loads, Congruent, PowerOfTwo
  <2>. QED  BY <1>1, <2>1, VerifierStep DEF vars
<1>2. CASE \/ \E files \in Contract : Edit(files)
           \/ \E commit \in Commit, pinnedTools, release \in BOOLEAN :
                Checkout(commit, pinnedTools, release)
           \/ BuildFails
  <2>1. /\ accepted' = Nothing /\ bundle' = bundle
        /\ build' = build \/ build'.at \in {"idle", "copied"}
    BY <1>2 DEF Edit, Checkout, BuildFails, Idle
  <2>. QED  BY <2>1, LibrariesStep DEF LayoutInv
<1>3. CASE \/ \E names \in SUBSET Release, notes \in Notes, image \in OwnImage,
                found \in Found : Build(names, notes, image, found)
           \/ write_provenance \/ Install
           \/ \E library \in Old : Exchange(library)
  BY <1>3, BuildLayout, WriteLayout, InstallLayout, ExchangeLayout
<1>4. CASE \/ \E required \in BOOLEAN : VerifyBundle(required)
           \/ \E entries \in Packages, apk, required \in BOOLEAN :
                VerifyPackage(entries, apk, required)
  BY <1>4, VerifyBundleLayout, VerifyPackageLayout
<1>. QED
  BY <1>1, <1>2, <1>3, <1>4 DEF Next

\* The loader can map everything that is accepted, whatever the page, if it is a
\* power of two that is no larger than PAGE_SIZE (verify_elf, verify_archive).
THEOREM AcceptedLibrariesLoad == Spec => []LoadableLayout
<1>1. LayoutInv => LoadableLayout
  BY DEF LayoutInv
<1>. QED
  BY <1>1, InitLayout, NextLayout, PTL DEF Spec
=============================================================================
