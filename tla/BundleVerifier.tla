---------------------------- MODULE BundleVerifier ----------------------------
(***************************************************************************)
(* How an Android package comes to hold the native libraries of this       *)
(* repository: tool/build_litert_lm_android.sh builds and stages them,     *)
(* tool/verify_android_bundle.py checks the stage and writes its           *)
(* provenance, the stage becomes the bundle, Gradle packages it, and the   *)
(* verifier accepts the bundle and the package, or does not.               *)
(*                                                                         *)
(* A file stands for its hash.  The contract is what the libraries must    *)
(* agree with: the bridge (the runtime's C headers go with the revision),  *)
(* the bindings, and the revision the build script pins.  It is edited,    *)
(* and the bundle's files are exchanged, at any time.  Version n of the    *)
(* bridge exports the symbols 1 .. n, version n of the bindings looks them *)
(* up.  The readers (nm, git, JSON, regular expressions) are their         *)
(* results, and one call of the verifier is one step: edits within its few *)
(* seconds are left out.  The package it is given is any that Gradle may   *)
(* have made (Packages).                                                   *)
(***************************************************************************)
EXTENDS ElfLayout, Functions

CONSTANTS
    Version,     \* of the bridge and the bindings
    Commit,      \* revisions of LiteRT-LM
    Release,     \* RELEASE_LIBRARIES
    MAIN_LIBRARY,
    Other,       \* a library of another plugin
    Notes,       \* note sections: sequences of [buildId, truncated]
    Image,       \* layouts of libraries
    OwnImage,    \* those of libraries of this repository
    Offset,      \* where the data of a ZIP entry can begin
    Found,       \* what NPU_VENDOR_LIB_DIRS can hold: libraries by name
    None

ASSUME BundleAssumption ==
    /\ Version \subseteq Nat
    /\ MAIN_LIBRARY \in Release
    /\ Other \notin Release
    /\ \A image \in Image \union OwnImage : Unsigned(image)
    /\ Offset \subseteq Nat

VARIABLES
    contract, \* the contract files in the repository
    build,    \* the build script
    bundle,   \* android/src/main/jniLibs/arm64-v8a, or None
    accepted  \* what the verifier accepted in the last step

vars == <<contract, build, bundle, accepted>>

Contract == [bridge : Version, bindings : Version, commit : Commit]

\* What a library was built from; the bridge is linked into the main one.
Built == [name : Release \union {Other}, commit : Commit \union {None}, pinnedTools : BOOLEAN,
          bridge : Version \union {0}]

Library(built, notes, image) ==
    [built |-> built, stripped |-> FALSE, notes |-> notes, image |-> image]

\* Whatever the vendor directories hold was not built by this script.
ASSUME FoundAssumption ==
    \A found \in Found : \A name \in DOMAIN found :
        found[name] \in [built : Built, stripped : BOOLEAN, notes : Notes,
                        image : Image \union OwnImage]

BuiltOf(name, commit, bridge, pinnedTools) ==
    [name |-> name, commit |-> commit, pinnedTools |-> pinnedTools,
     bridge |-> IF name = MAIN_LIBRARY THEN bridge ELSE 0]

Exports(library) == 1 .. library.built.bridge

\* What the bindings look up, and what the bridge's sources declare and call.
required_symbols == (1 .. contract.bindings) \union (1 .. contract.bridge)

\* Mutant: what the bindings look up is not asked for.
SymbolsOfBridge(library) == 1 .. contract.bridge \subseteq Exports(library)

verify_symbols(library) == required_symbols \subseteq Exports(library)

-----------------------------------------------------------------------------
(* Directories: a manifest and libraries by name.                          *)

bundle_libraries(directory) == MAIN_LIBRARY \in DOMAIN directory.libraries

verify_directory(directory) ==
    /\ bundle_libraries(directory)
    /\ \A name \in DOMAIN directory.libraries :
         verify_elf(directory.libraries[name].image)
    /\ verify_symbols(directory.libraries[MAIN_LIBRARY])

\* Mutant: the sources that were copied are not compared with the repository's.
SourcesUnchecked == build.commit = contract.commit /\ build.pinnedTools

\* What write_provenance asks before it writes: the revision, the sources that
\* were copied into the checkout, and the tools, dependencies and flags.
SourcesMatch ==
    /\ build.commit = contract.commit
    /\ build.bridge = contract.bridge
    /\ build.pinnedTools

\* Mutant: what a release has to hold is not asked for.
ProvenanceOfSubset(directory) ==
    LET manifest == directory.manifest IN
    /\ manifest # None
    /\ manifest.commit = contract.commit /\ manifest.pinnedTools
    /\ bundle_libraries(directory) /\ manifest.libraries = directory.libraries
    /\ manifest.contract = contract

\* release: the accelerators and the build targets of a release.
verify_provenance(directory) ==
    LET manifest == directory.manifest IN
    /\ manifest # None
    /\ manifest.commit = contract.commit /\ manifest.pinnedTools
    /\ bundle_libraries(directory) /\ manifest.libraries = directory.libraries
    /\ manifest.contract = contract
    /\ manifest.release
    /\ Release \subseteq DOMAIN directory.libraries

-----------------------------------------------------------------------------
(* Archives: functions to entries [folder, name, library, stored, at].     *)
(* "base" is lib/arm64-v8a of an APK or of an AAB's base module, "feature" *)
(* that of another module, "elsewhere" any other path or ABI.              *)

Path(entry) == <<entry.folder, entry.name>>

\* An uncompressed library is mapped from where it is in the APK.
DataAligned(entry) == entry.stored => entry.at % PAGE_SIZE = 0

SameBinary(library, source) ==
    /\ verify_elf(source.image)
    /\ Identified(library) /\ Identified(source)
    /\ binary_identity(library) = binary_identity(source)

EntryAccepted(entry, expected, apk) ==
    /\ entry.folder \in (IF apk THEN {"base"} ELSE {"base", "feature"})
    /\ verify_elf(entry.library.image)
    /\ entry.name \in DOMAIN expected => SameBinary(entry.library, expected[entry.name])
    /\ apk => DataAligned(entry)
    /\ entry.name = MAIN_LIBRARY => verify_symbols(entry.library)

verify_archive(archive, expected) ==
    LET entries == archive.entries IN
    /\ DOMAIN entries # {}
    /\ \A i, j \in DOMAIN entries : Path(entries[i]) = Path(entries[j]) => i = j
    /\ \A name \in DOMAIN expected :
         \E i \in DOMAIN entries : Path(entries[i]) = <<"base", name>>
    /\ \A i \in DOMAIN entries : EntryAccepted(entries[i], expected, archive.apk)

-----------------------------------------------------------------------------
(* The build script.                                                       *)

Idle == [at |-> "idle"]

Nothing == [entries |-> {}, apk |-> FALSE, provenance |-> FALSE]

Init ==
    /\ contract \in Contract
    /\ build = Idle
    /\ bundle = None
    /\ accepted = Nothing

Edit(files) ==
    /\ contract' = files
    /\ accepted' = Nothing
    /\ UNCHANGED <<build, bundle>>

\* checkout_source: a revision is checked out (LITERT_LM_COMMIT overrides the
\* pinned one) and patch_shared_target copies the bridge into it.
Checkout(commit, pinnedTools, release) ==
    /\ build.at = "idle"
    /\ build' = [at |-> "copied", commit |-> commit, bridge |-> contract.bridge,
                 pinnedTools |-> pinnedTools, release |-> release]
    /\ accepted' = Nothing
    /\ UNCHANGED <<contract, bundle>>

\* bazel build; the main library and the others, prebuilt ones among them, go to a
\* fresh stage.  Last, what the vendor directories hold is copied over them, whatever
\* its names (copy_npu_dispatch_libs).  vendored is history: no check reads it.
Build(names, notes, image, found) ==
    /\ build.at = "copied"
    /\ MAIN_LIBRARY \in names
    /\ build' = [at |-> "staged", commit |-> build.commit, bridge |-> build.bridge,
                 pinnedTools |-> build.pinnedTools, release |-> build.release,
                 vendored |-> DOMAIN found,
                 libraries |-> [name \in names \union DOMAIN found |->
                    IF name \in DOMAIN found THEN found[name]
                    ELSE Library(BuiltOf(name, build.commit, build.bridge,
                                         build.pinnedTools), notes, image)]]
    /\ accepted' = Nothing
    /\ UNCHANGED <<contract, bundle>>

Manifest == [commit |-> build.commit, pinnedTools |-> build.pinnedTools,
             release |-> build.release, libraries |-> build.libraries,
             contract |-> contract, vendored |-> build.vendored]

\* verify_runtime_bundle: the verifier with --write-provenance-source.
write_provenance ==
    /\ build.at = "staged"
    /\ verify_directory([libraries |-> build.libraries])
    /\ SourcesMatch
    /\ build' = [at |-> "recorded", stage |-> [manifest |-> Manifest,
                                               libraries |-> build.libraries]]
    /\ accepted' = Nothing
    /\ UNCHANGED <<contract, bundle>>

\* The stage takes the bundle's place.  Killed between the two moves, the script
\* leaves no bundle.
Install ==
    /\ build.at = "recorded"
    /\ bundle' \in {build.stage, None}
    /\ build' = Idle
    /\ accepted' = Nothing
    /\ UNCHANGED contract

\* Anything fails: the stage is removed, the bundle is kept.
BuildFails ==
    /\ build.at # "idle"
    /\ build' = Idle
    /\ accepted' = Nothing
    /\ UNCHANGED <<contract, bundle>>

\* The bundle's main library is exchanged for one that was built elsewhere.
Exchange(library) ==
    /\ bundle # None
    /\ bundle' = [manifest  |-> bundle.manifest,
                  libraries |-> [name \in DOMAIN bundle.libraries |->
                     IF name = MAIN_LIBRARY THEN library ELSE bundle.libraries[name]]]
    /\ accepted' = Nothing
    /\ UNCHANGED <<contract, build>>

-----------------------------------------------------------------------------
(* Verification of the bundle and of packages.                             *)

Strip(library) == [library EXCEPT !.stripped = TRUE]

Entry(name, library) == [folder |-> "base", name |-> name, library |-> library,
                         stored |-> FALSE, at |-> 0]

\* Main libraries that were built at other times.
Old == [built    : {BuiltOf(MAIN_LIBRARY, commit, bridge, TRUE) :
                      commit \in Commit, bridge \in Version},
        stripped : {FALSE}, notes : Notes,
        image    : {image \in OwnImage : verify_elf(image)}]

Plugin == {Library(BuiltOf(Other, None, 0, FALSE), <<>>, image) : image \in Image}

\* Libraries that are not of the bundle, in any folder, or stored anywhere.
Extra ==
    {entry \in [folder : {"base", "feature", "elsewhere"}, name : {MAIN_LIBRARY, Other},
                library : Old \union Plugin, stored : {FALSE}, at : {0}] :
       entry.name = entry.library.built.name}
    \union [folder : {"base"}, name : {Other}, library : Plugin,
            stored : {TRUE}, at : Offset]

\* What Gradle makes of the bundle: all its libraries, stripped or not, one less,
\* the main one from its caches (or from a package of an earlier bundle), one
\* entry more.
Packages ==
    LET Of(libraries) == [name \in DOMAIN libraries |-> Entry(name, libraries[name])]
        stripped      == Of([name \in DOMAIN bundle.libraries |-> Strip(bundle.libraries[name])])
    IN  {Of(bundle.libraries), stripped}
        \union {Restrict(stripped, DOMAIN stripped \ {gone}) : gone \in DOMAIN stripped}
        \union {[stripped EXCEPT ![MAIN_LIBRARY] = Entry(MAIN_LIBRARY, old)] : old \in Old}
        \union {[i \in {None} \union DOMAIN stripped |->
                   IF i = None THEN extra ELSE stripped[i]] : extra \in Extra}

\* The verifier on the bundle's directory; required: --require-provenance.
VerifyBundle(required) ==
    /\ bundle # None
    /\ required => verify_provenance(bundle)
    /\ verify_directory(bundle)
    /\ accepted' = [entries |-> {Entry(name, bundle.libraries[name]) :
                                   name \in DOMAIN bundle.libraries},
                    apk |-> FALSE, provenance |-> required]
    /\ UNCHANGED <<contract, build, bundle>>

\* The verifier on a package, against the bundle.
VerifyPackage(entries, apk, required) ==
    /\ bundle # None
    /\ required => verify_provenance(bundle)
    /\ bundle_libraries(bundle)
    /\ verify_archive([entries |-> entries, apk |-> apk], bundle.libraries)
    /\ accepted' = [entries |-> Range(entries), apk |-> apk, provenance |-> required]
    /\ UNCHANGED <<contract, build, bundle>>

Next ==
    \/ \E files \in Contract : Edit(files)
    \/ \E commit \in Commit, pinnedTools, release \in BOOLEAN :
         Checkout(commit, pinnedTools, release)
    \/ \E names \in SUBSET Release, notes \in Notes, image \in OwnImage, found \in Found :
         Build(names, notes, image, found)
    \/ write_provenance \/ Install \/ BuildFails
    \/ \E library \in Old : Exchange(library)
    \/ \E required \in BOOLEAN : VerifyBundle(required)
    \/ /\ build.at = "idle" /\ bundle # None
       /\ \E entries \in Packages, apk, required \in BOOLEAN :
            VerifyPackage(entries, apk, required)

Spec == Init /\ [][Next]_vars

-----------------------------------------------------------------------------
(* Properties, of what the verifier accepts.                               *)

\* "Reject edits made during a long build instead of attaching current contract
\* hashes to an older snapshot" (write_provenance), and "instead of accepting a
\* stale .so" (binary_identity): with its provenance required, every main library
\* in what is accepted was built with the pinned tools from the revision that is
\* pinned and the bridge that is in the repository now, whatever was edited,
\* exchanged or cached between checkout and packaging.  Only a vendor directory
\* that held a main library makes an exception: that one is recorded like the
\* library it was copied over.
AcceptedIsCurrent ==
    accepted.provenance =>
        \A entry \in accepted.entries :
            entry.name = MAIN_LIBRARY /\ MAIN_LIBRARY \notin bundle.manifest.vendored =>
                entry.library.built =
                    BuiltOf(MAIN_LIBRARY, contract.commit, contract.bridge, TRUE)

\* Also without provenance: the bindings of the application find every symbol in
\* the main library it will load.
SymbolsResolve ==
    \A entry \in accepted.entries : entry.name = MAIN_LIBRARY =>
        1 .. contract.bindings \subseteq Exports(entry.library)

\* The loader of a device whose pages are PAGE_SIZE or any smaller power of two
\* can map every segment of every library in place: its file offset, counted from
\* the beginning of the APK if the library is stored in it, and its address agree
\* modulo the page, and the file holds what is mapped.
LoadableLayout ==
    \A entry \in accepted.entries :
        LET image == entry.library.image
            base  == IF entry.stored /\ accepted.apk THEN entry.at ELSE 0
        IN  \A segment \in Loads(image) :
              /\ segment.offset + segment.fileSize <= image.size
              /\ \A page \in 1 .. PAGE_SIZE : PowerOfTwo(page) =>
                    Congruent(base + segment.offset, segment.address, page)

\* With its provenance required, a release is whole: the application has each
\* library of the release once, where it looks for it, and it is the one that was
\* staged by the build the manifest describes; that built it from the pinned
\* revision, unless a vendor directory held a library of that name.  Nothing comes
\* of a subset that was built for development.
ReleaseIsComplete ==
    accepted.provenance =>
        \A name \in Release :
            LET Copies == {entry \in accepted.entries : Path(entry) = <<"base", name>>}
                staged == bundle.manifest.libraries[name].built
            IN  /\ \E entry \in Copies : Copies = {entry}
                /\ \A entry \in Copies : entry.library.built = staged
                /\ name \notin bundle.manifest.vendored =>
                      staged = BuiltOf(name, contract.commit, contract.bridge, TRUE)
=============================================================================
