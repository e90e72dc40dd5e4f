SPECIFICATION FairSpec
CONSTANTS
 t1=t1 t2=t2 h1=h1 h2=h2 h3=h3 m1=m1 m2=m2 m3=m3 v1=v1 v2=v2
 Thread={t1,t2}
 Handle={h1,h2}
 Model={m1,m2}
 Alloc={a1,a2}
 DefaultAlloc=a1
 Value={v1}
 Junk=Junk Null=Null Dead=Dead NoHandle=NoHandle NoAlloc=NoAlloc Everyone=Everyone
 Pocca=FALSE Pocma=FALSE Pocs=FALSE
PROPERTY Returns
CHECK_DEADLOCK FALSE
