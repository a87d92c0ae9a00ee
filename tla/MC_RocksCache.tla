---------------------------- MODULE MC_RocksCache ----------------------------
(***************************************************************************)
(* Model-checking instances of RocksCache.  Bytes are 0, 1 and 2; md5 is   *)
(* idealised as the base-3 value of the string behind a leading 1, which   *)
(* is injective, so any two derived keys that are equal come from equal    *)
(* byte strings.                                                           *)
(***************************************************************************)
EXTENDS RocksCache, TLC

MCDigest(s) ==
    LET val[i \in 0..Len(s)] == IF i = 0 THEN 1 ELSE 3 * val[i - 1] + s[i]
    IN  val[Len(s)]

\* Chapter hashes are fixed-length hex strings in practice: one byte here.
MCChaptersFixed == {<<1>>}
MCImagesFixed   == {<<1>>}

\* Chapter hashes and image names of varying length.
MCChaptersVar == {<<1>>, <<1, 1>>}
MCImagesVar   == {<<2>>, <<1, 2>>}

\* The upstream image for the data-saver variant is the smaller one.
MCImageLen(k) == IF k.data_saver THEN 1 ELSE 2

MCKeySpaceOf(chs, ims) ==
    {MCDigest(<<IF s THEN 1 ELSE 0>> \o c \o i) : c \in chs, i \in ims, s \in BOOLEAN}

MCKeySpaceFixed == MCKeySpaceOf(MCChaptersFixed, MCImagesFixed)
MCKeySpaceVar   == MCKeySpaceOf(MCChaptersVar, MCImagesVar)

\* Request tasks are interchangeable.
MCSymmetry == Permutations(Procs)

=============================================================================
