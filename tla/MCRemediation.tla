---------------------------- MODULE MCRemediation ----------------------------
(* Three users whose IDs become one file name, the third by the suffix of   *)
(* the second, in estates where one was seen to use a grant since.          *)
EXTENDS Remediation, TLC

CONSTANTS r1, r2

MCModes == {[r \in {r1, r2} |-> mode] : mode \in {"save-db", "out", "open-pr"}}
MCAgeOf == [v \in {"old"} |-> 9]
MCOrder == <<"a/b", "a:b", "a_b_2">>
MCBase == [id \in {"a/b", "a:b", "a_b_2"} |-> IF id = "a_b_2" THEN id ELSE "a_b"]
MCSuffix == <<"", "_2", "_3", "_4", "_5", "_6">>
MCSegment == [x \in (DOMAIN MCBase) \X (DOMAIN MCSuffix) |-> MCBase[x[1]] \o MCSuffix[x[2]]]

S3Used ==
    {[name |-> "s3", admin |-> FALSE, used |-> TRUE, actions |-> {}],
     [name |-> "ec2", admin |-> FALSE, used |-> FALSE, actions |-> {}]}
EC2Used ==
    {[name |-> "s3", admin |-> FALSE, used |-> FALSE, actions |-> {}],
     [name |-> "ec2", admin |-> FALSE, used |-> TRUE, actions |-> {}]}
BothUsed == {[p EXCEPT !.used = TRUE] : p \in S3Used}

User(grants, created) ==
    [fields |-> "type" :> "service_account" @@ "source" :> "aws_iam" @@ "created" :> created,
     permissions |-> grants]

MCEstates ==
    {"a/b" :> User(S3Used, NoValue) @@ "a:b" :> User(EC2Used, NoValue)
        @@ "a_b_2" :> User(EC2Used, "old"),
     "a/b" :> User(BothUsed, NoValue) @@ "a:b" :> User(S3Used, NoValue),
     "a/b" :> User({}, NoValue)}
=============================================================================
