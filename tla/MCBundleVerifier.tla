--------------------------- MODULE MCBundleVerifier ---------------------------
(* BundleVerifier for TLC: pages of 4 units, headers of 1.                 *)
EXTENDS BundleVerifier, TLC

Segment(offset, address, alignment) ==
    [load |-> TRUE, offset |-> offset, address |-> address, alignment |-> alignment,
     fileSize |-> 2, memorySize |-> 3]

Of(segments) == [aarch64 |-> TRUE, tableAt |-> 1, segments |-> segments, size |-> 12]

plain == Segment(4, 12, 4)
good  == Of(<<plain>>)
odd   == Of(<<plain, Segment(0, 6, 6)>>)

OwnImages == {good, odd}

\* Two that are accepted, and one for every reason to reject one.
Images == {good, Of(<<plain, Segment(4, 12, 8)>>),
             odd, Of(<<Segment(2, 4, 2)>>),
           Of(<<Segment(4, 5, 4)>>), Of(<<Segment(12, 12, 4)>>),
           Of(<<[plain EXCEPT !.fileSize = 4]>>), Of(<<[plain EXCEPT !.load = FALSE]>>),
           [good EXCEPT !.aarch64 = FALSE], [good EXCEPT !.tableAt = 0],
           [good EXCEPT !.tableAt = 12]}

Note(buildId, truncated) == [buildId |-> buildId, truncated |-> truncated]

\* A build is only begun over a whole release of this repository, not over one
\* whose files were exchanged or came from a vendor: whatever the bundle is, it is
\* replaced as a whole, or kept.
BuiltOverBuilt ==
    build.at # "idle" /\ bundle # None =>
        /\ bundle.libraries = bundle.manifest.libraries
        /\ bundle.manifest.vendored = {}
        /\ Release \subseteq DOMAIN bundle.libraries

\* A stage with files of a vendor is only followed if it is a release's.
VendorsOfReleases == build.at = "staged" /\ build.vendored # {} => build.release

Revisions == Permutations(Commit)

NoteSections == {<<>>, <<Note(FALSE, FALSE), Note(TRUE, FALSE)>>,
                   <<Note(FALSE, TRUE), Note(TRUE, FALSE)>>}

FromVendor(name) == Library(BuiltOf(name, None, 2, FALSE), <<>>, good)

\* No vendor directory; one with a main library; one with other libraries, some of
\* the release.
Directories ==
    {<<>>, [name \in {MAIN_LIBRARY} |-> FromVendor(name)],
     [name \in {Other} \union (Release \ {MAIN_LIBRARY}) |-> FromVendor(name)]}
=============================================================================
