------------------------- MODULE MCTableValidation -------------------------
EXTENDS TableValidation, SampleTables
MCAlphabet == <<"0", "1", "A", "B", "annotation_property", "class", "data_property", "datatype",
                "i", "k1", "label", "named_individual", "object_property", "plain", "q", "r",
                "s1", "s2", "string", "x">>
Samples == [x \in TableNames |-> TableNamed(x)]
MCTable == Samples
=============================================================================
