------------------------------ MODULE MCMission ------------------------------
EXTENDS Mission

AllCommands == {<<"DEPLOY", True>>, <<"DEPLOY", False>>, <<"RETURN", True>>,
                <<"RETURN", False>>, <<"REGION", <<"REGIONA">> >>, <<"REGION", <<"REGIONB">> >>}

OnlyDeploy == {<<"DEPLOY", True>>}
DeployAndReturn == {<<"DEPLOY", True>>, <<"RETURN", True>>}
=============================================================================
