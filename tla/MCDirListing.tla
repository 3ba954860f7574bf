--------------------------- MODULE MCDirListing ---------------------------
(***************************************************************************)
(* Directories for the listing runs.                                        *)
(***************************************************************************)
EXTENDS DirListing

\* The entries of the names in order, those of subdirs being directories.
Listing(order, subdirs) ==
  [i \in DOMAIN order |-> [isDir |-> order[i] \in subdirs, name |-> order[i]]]

\* Names with keys of their own: none, a few, and four or five pages of three
\* rows in two disk orders.  Two directories with names that share a key.
ListingDirectories ==
  {<< >>,
   Listing(<<4, 2, 6>>, {6}),
   Listing(<<10, 2, 18, 8, 4, 14, 6, 16, 12, 22, 20>>, {8, 14}),
   Listing(<<2, 4, 6, 8, 10, 12, 14, 16, 18, 20, 22, 24, 26>>, {2, 4, 6, 8, 26}),
   Listing(<<5, 2, 3, 4>>, {4, 5}),
   Listing(<<3, 6, 4, 2, 7, 9, 8>>, {3, 4, 8, 9})}

\* One page of the menu, full.
FullPage == {Listing([i \in 1 .. 21 |-> i], {1, 2})}
=============================================================================
