------------------------------ MODULE MCUpload ------------------------------
(***************************************************************************)
(* Instance of Upload for TLC.  The digest of an image body tells every    *)
(* two bodies apart that chunks of the files can make.                     *)
(***************************************************************************)
EXTENDS Upload, SequencesExt

MCBytes == 0 .. 127

MCHash(body) == FoldLeft(LAMBDA sum, b : 2 * sum + b, 1, body)
MCFactoryImage == <<0, MCHash(<<0>>)>>

Image(body) == Append(body, MCHash(body))

\* Images of several lengths, one of them too large for the partition, and a
\* file that the build has only begun to write.
MCFiles ==
    {Image(<<0, 1, 0, 0>>), Image(<<1, 1, 0, 0>>), Image(<<1, 0, 1>>),
     Image(<<1, 1, 1, 1, 1, 1>>), SubSeq(Image(<<0, 1, 0, 0>>), 1, 3), <<>>}
=============================================================================
