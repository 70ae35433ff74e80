SPECIFICATION RpcFairSpec
CONSTANT Clients = {c1, c2}
PROPERTY StopComesBack
