-------------------------- MODULE MCMetadataLoader --------------------------
EXTENDS MetadataLoader

CONSTANTS relations, columns

\* columns need relations, as the plans of the providers have it.
MCKinds == {relations, columns}
MCDependsOn == [k \in MCKinds |-> IF k = columns THEN {relations} ELSE {}]
MCNoDependencies == [k \in {relations} |-> {}]
=============================================================================
