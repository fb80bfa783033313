------------------------- MODULE MCOperationSetting -------------------------
EXTENDS OperationSetting

\* Two groups: "general" with one plain field, "ratio" with two JSON fields
\* saved in the order ModelRatio, GroupRatio.
MCGroupKeys == [general |-> <<"TopUpLink">>,
                ratio   |-> <<"ModelRatio", "GroupRatio">>]
MCJsonKeys == {"ModelRatio", "GroupRatio"}
MCToggles == {"DisplayInCurrencyEnabled"}
MCVals == {"v1", "v2"}
MCOutcomesAll == {"ok", "fail", "throw"}
MCOutcomesOk == {"ok"}

=============================================================================
