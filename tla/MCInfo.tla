------------------------------- MODULE MCInfo -------------------------------
(***************************************************************************)
(* Instance of Info for TLC: reports on both sides of the capacity, and    *)
(* versions on both sides of 255.                                          *)
(***************************************************************************)
EXTENDS Info

Text(n) == [i \in 1 .. n |-> 68 + (i % 2)]

Version(vee, parts, tail) ==
    [text |-> (IF vee THEN <<118>> ELSE <<>>)
                \o FlattenSeq([i \in 1 .. 2 * Len(parts) - 1 |->
                     IF i % 2 = 1 THEN parts[(i + 1) \div 2] ELSE <<Dot>>]) \o tail,
     parts |-> parts]

Components == {<<>>, <<48>>, <<50, 53, 53>>, <<50, 53, 54>>, <<48, 48, 55>>, <<54, 53, 53, 51, 55>>}
Versions ==
    {Version(v, p, tail) : v \in BOOLEAN, p \in TupleOf(Components, 3),
                           tail \in {<<>>, <<45, 49>>, <<Dot, 49>>}}
      \cup {Version(v, <<c>>, <<>>) : v \in BOOLEAN, c \in Components}

Device(version, chip, running, boot, idf, project, parts, rollback) ==
    [ described |-> idf # None, version |-> version.text, version_parts |-> version.parts,
      uptime |-> 70000, free_heap |-> 255, boot_count |-> 256, rollback |-> rollback,
      chip_model |-> chip, running |-> running, boot |-> boot, ota_state |-> IF running = None THEN <<85>> ELSE <<86>>,
      idf_version |-> idf, project_name |-> project, build_date |-> Text(11),
      partitions |-> parts ]

OneVersion == Version(TRUE, <<<<48>>, <<49>>, <<50>>>>, <<>>)

Partitions ==
    { [name |-> "factory", label |-> <<102>>, state |-> <<85>>],
      [name |-> "ota_0", label |-> Text(5), state |-> <<86>>],
      [name |-> "ota_15", label |-> <<111>>, state |-> <<73, 78>>],
      [name |-> "test", label |-> <<116>>, state |-> <<85>>] }

MCDevices ==
    {Device(OneVersion, Text(5), r, b, i, p, ps, k) :
        r \in {None, Text(5)}, b \in {None, <<111>>}, i \in {None, Text(4)},
        p \in {Text(n) : n \in {0, 1, 5}}, ps \in SeqOf(Partitions, 3), k \in {0, 1}}
      \cup {Device(v, Text(5), Text(5), Text(5), Text(4), <<69>>, <<>>, 0) : v \in Versions}

\* Texts up to the thirty-one characters that an app description holds: long
\* enough for a first character read as a length to fit the payload.
MCLegacyDevices ==
    {Device(OneVersion, Text(c), Text(r), None, Text(i), Text(p), <<>>, 0) :
        c \in {1, 5}, r \in {1, 5}, i \in {4, 30, 31}, p \in 24 .. 31}
=============================================================================
