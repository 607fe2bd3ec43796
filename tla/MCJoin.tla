-------------------------------- MODULE MCJoin --------------------------------
(* Main forks a thread and joins it.                                         *)
EXTENDS Join
MCPrograms == {<<<<<<"Fork", 2>>, <<"Join", 2>>>>, <<>>>>}
AllJoinable == {Threads \ {Main}}
MCPriority == [t \in Threads |-> 0]
===============================================================================
